---- MODULE Spec2Model ----
(***************************************************************************)
(* A model of librustc/middle/region.rs: the ScopeTree data structure, its *)
(* queries, and the RegionResolutionVisitor that builds a ScopeTree by a   *)
(* recursive walk over one function body.  The recursion of the visitor is *)
(* unfolded into an explicit stack of pending visits: each action is the   *)
(* part of one handler that runs up to its first nested visit, or the part *)
(* that runs after its last one.                                           *)
(***************************************************************************)
EXTENDS Integers, Sequences, FiniteSets, TLC

VARIABLES
    prog,               \* the HIR body being walked: node id -> [k, f, c]
    stack,              \* pending visits of the recursive walk, innermost first
    cx,                 \* RegionResolutionVisitor.cx : Context
    expr_count,         \* RegionResolutionVisitor.expr_count
    terminating_scopes, \* RegionResolutionVisitor.terminating_scopes
    parent_map,         \* ScopeTree.parent_map
    var_map,            \* ScopeTree.var_map
    destruction_scopes, \* ScopeTree.destruction_scopes
    rvalue_scopes,      \* ScopeTree.rvalue_scopes
    closure_tree,       \* ScopeTree.closure_tree
    yield_in_scope,     \* ScopeTree.yield_in_scope
    body_expr_count,    \* ScopeTree.body_expr_count
    fatal,              \* "" or the assertion / bug!() that ended the process
    q,                  \* the last call made of the tree: the method, its arguments
                        \* and what it returned
    def_id,             \* the item region_scope_tree was asked about (a body's node)
    mir,                \* has_ffi_unwind_calls: the item, and the basic blocks of its
                        \* MIR body that the loop has gone through
    lints,              \* the FFI_UNWIND_CALLS diagnostics emitted, in order
    tainted             \* has_ffi_unwind_calls: the local `tainted`

vars == <<prog, stack, cx, expr_count, terminating_scopes, parent_map, var_map,
          destruction_scopes, rvalue_scopes, closure_tree, yield_in_scope,
          body_expr_count, fatal, q, def_id, mir, lints, tainted>>

tree_vars == <<parent_map, var_map, destruction_scopes, rvalue_scopes,
               closure_tree, yield_in_scope, body_expr_count>>

ffi_vars == <<mir, lints, tainted>>

visitor_vars == <<def_id, prog, stack, cx, expr_count, terminating_scopes>>

(***************************************************************************)
(* Scope: the enum of region.rs:99.  idx is first_statement_index of a     *)
(* Remainder and 0 for the other variants.  None is Option::None.          *)
(***************************************************************************)
Node(n) == [tag |-> "Node", id |-> n, idx |-> 0]
CallSite(n) == [tag |-> "CallSite", id |-> n, idx |-> 0]
Arguments(n) == [tag |-> "Arguments", id |-> n, idx |-> 0]
Destruction(n) == [tag |-> "Destruction", id |-> n, idx |-> 0]
Remainder(b, i) == [tag |-> "Remainder", id |-> b, idx |-> i]
None == [tag |-> "None", id |-> 0, idx |-> 0]
NoneId == 0

item_local_id(s) == s.id

EmptyMap == [x \in {} |-> None]
Range(f) == {f[x] : x \in DOMAIN f}
Insert(m, k, v) == (k :> v) @@ m

(***************************************************************************)
(* The input: a HIR body as a term [k, f, c] (kind, attribute, children),  *)
(* numbered in pre-order so that every node has an id unique in the owner. *)
(***************************************************************************)
T(k, f, c) == [k |-> k, f |-> f, c |-> c]

RECURSIVE Size(_), SizeUpTo(_, _)
Size(t) == 1 + SizeUpTo(t.c, Len(t.c))
SizeUpTo(ts, i) == IF i = 0 THEN 0 ELSE SizeUpTo(ts, i - 1) + Size(ts[i])

KidId(t, id, i) == id + 1 + SizeUpTo(t.c, i - 1)

RECURSIVE Flatten(_, _), FlattenKids(_, _, _)
Flatten(t, id) ==
    (id :> [k |-> t.k, f |-> t.f, c |-> [i \in 1..Len(t.c) |-> KidId(t, id, i)]])
        @@ FlattenKids(t, id, Len(t.c))
FlattenKids(t, id, i) ==
    IF i = 0 THEN EmptyMap
    ELSE FlattenKids(t, id, i - 1) @@ Flatten(t.c[i], KidId(t, id, i))

\* Expressions
Lit == T("lit", "", <<>>)
Call(args) == T("call", "", args)
AddrOf(e) == T("addrof", "", <<e>>)
Deref(e) == T("deref", "", <<e>>)
Field(e) == T("field", "", <<e>>)
Index(e, i) == T("index", "", <<e, i>>)
Tup(es) == T("tup", "", es)
Cast(e) == T("cast", "", <<e>>)
And(l, r) == T("and", "", <<l, r>>)
Or(l, r) == T("or", "", <<l, r>>)
Add(l, r) == T("binop", "", <<l, r>>)
If(c, t) == T("if", "", <<c, t>>)
IfElse(c, t, e) == T("if", "", <<c, t, e>>)
Loop(b) == T("loop", "", <<b>>)
While(c, b) == T("while", "", <<c, b>>)
Match(s, arms) == T("match", "", <<s>> \o arms)
Yield(e) == T("yield", "", <<e>>)
Closure(body) == T("closure", "", <<body>>)
BlockExpr(b) == T("blockexpr", "", <<b>>)
\* Blocks, statements, patterns, arms, bodies
Block(stmts) == T("block", "notail", stmts)
BlockTail(stmts, e) == T("block", "tail", stmts \o <<e>>)
Let(p, e) == T("let", "init", <<p, e>>)
\* `let p: &T = e`: Local.ty is a field the visitor never reads
LetRefTy(p, e) == T("let", "init: &T", <<p, e>>)
HasInit(f) == f \in {"init", "init: &T"}
LetNoInit(p) == T("let", "noinit", <<p>>)
ItemDecl == T("item", "", <<>>)
Semi(e) == T("semi", "", <<e>>)
Bind == T("bind", "val", <<>>)
BindRef == T("bind", "ref", <<>>)
Wild == T("wild", "", <<>>)
TupPat(ps) == T("tuppat", "", ps)
Arm(p, e) == T("arm", "noguard", <<p, e>>)
ArmGuard(p, g, e) == T("arm", "guard", <<p, g, e>>)
FnBody(args, e) == T("body", "fn", args \o <<e>>)
GenBody(args, e) == T("body", "gen", args \o <<e>>)
ConstBody(e) == T("body", "const", <<e>>)

ExprKinds == {"lit", "call", "addrof", "deref", "field", "index", "tup", "cast",
              "and", "or", "binop", "if", "loop", "while", "match", "yield",
              "closure", "blockexpr"}
StmtKinds == {"let", "item", "semi"}
PatKinds == {"bind", "wild", "tuppat"}

(***************************************************************************)
(* The bodies the visitor is run on.                                       *)
(***************************************************************************)
CallOf(e) == Call(<<Lit, e>>)
F0 == Call(<<Lit>>)

\* fn f(x) { let a = f(); let b = g(); a + b }
ProgLets ==
    FnBody(<<Bind>>, BlockExpr(BlockTail(<<Let(Bind, F0), Let(Bind, F0)>>, Add(Lit, Lit))))
\* fn f() { let ref x = compute(); g(); let (ref y, _) = h().f; ; x }
ProgLetRef ==
    FnBody(<<>>, BlockExpr(BlockTail(
        <<Let(BindRef, F0), Semi(F0), Let(TupPat(<<BindRef, Wild>>), Field(F0)), ItemDecl>>,
        Lit)))
\* fn f() { quux({ let inner = &bar(); &foo() }, other()); }
ProgQuux ==
    FnBody(<<>>, BlockExpr(Block(<<
        Semi(Call(<<Lit, BlockExpr(BlockTail(<<Let(Bind, AddrOf(F0))>>, AddrOf(F0))), F0>>))>>)))
\* fn f() { a() && b(c()); x || y() }
ProgAnd ==
    FnBody(<<>>, BlockExpr(BlockTail(<<Semi(And(F0, CallOf(F0)))>>, Or(Lit, F0))))
\* generator: { yield a; let c = |p| { yield b }; }
ProgGen ==
    GenBody(<<>>, BlockExpr(Block(<<
        Semi(Yield(Lit)),
        Let(Bind, Closure(GenBody(<<Bind>>, BlockExpr(BlockTail(<<>>, Yield(Lit))))))>>)))
\* fn f() { g(|| yield h()) }   (only the closure is a generator)
ProgGenInner ==
    FnBody(<<>>, BlockExpr(BlockTail(<<>>, CallOf(Closure(GenBody(<<>>, Yield(F0)))))))
\* fn f(p) { match s() { x if g() => x, (ref y, _) => h(y) } }
ProgMatch ==
    FnBody(<<Bind>>, BlockExpr(BlockTail(<<>>,
        Match(F0, <<ArmGuard(Bind, F0, Lit), Arm(TupPat(<<BindRef, Wild>>), CallOf(Lit))>>))))
\* fn f() { if c() { a() } else { b() }; while c() { d(); } loop { e(); } }
ProgCtrl ==
    FnBody(<<>>, BlockExpr(BlockTail(<<
        Semi(IfElse(F0, BlockExpr(BlockTail(<<>>, F0)), BlockExpr(BlockTail(<<>>, F0)))),
        Semi(While(F0, Block(<<Semi(F0)>>)))>>,
        Loop(Block(<<Semi(If(Lit, BlockExpr(Block(<<>>))))>>)))))
\* const X: _ = &f();
ProgConstRef == ConstBody(AddrOf(F0))
\* const Y: _ = g(&f());
ProgConstArg == ConstBody(CallOf(AddrOf(F0)))
\* fn f() { let x = &foo().f[i()]; let ref y = (&a(), b() as T); }
ProgChain ==
    FnBody(<<>>, BlockExpr(Block(<<
        Let(Bind, AddrOf(Index(Field(F0), F0))),
        Let(BindRef, Tup(<<AddrOf(F0), Cast(F0)>>))>>)))
\* fn f(a) { let c = |b| |d| d; c }
ProgNested ==
    FnBody(<<Bind>>, BlockExpr(BlockTail(<<
        Let(Bind, Closure(FnBody(<<Bind>>, Closure(FnBody(<<Bind>>, Lit)))))>>, Lit)))

\* static Z: _ = (&a().f, g(&b()) as T);
ProgConstTup == ConstBody(Tup(<<AddrOf(Field(F0)), Cast(CallOf(AddrOf(F0)))>>))
\* generator: { let c = || yield a(); yield c }
ProgGenAfter ==
    GenBody(<<>>, BlockExpr(BlockTail(<<Let(Bind, Closure(GenBody(<<>>, Yield(F0))))>>,
                                      Yield(Lit))))
\* fn f() { if c() { g(|p| a && (b || c)) }; d && e }
ProgClosureCtrl ==
    FnBody(<<>>, BlockExpr(BlockTail(<<
        Semi(If(F0, CallOf(Closure(FnBody(<<Bind>>, And(Lit, Or(Lit, Lit)))))))>>,
        And(Lit, Lit))))
\* fn f() { match { let b = 1; 2 } { x if { let c = 3; 4 } => 5, y => 6 }; k(); }
ProgInnerLets ==
    FnBody(<<>>, BlockExpr(Block(<<
        Semi(Match(BlockExpr(BlockTail(<<Let(Bind, Lit)>>, Lit)),
                   <<ArmGuard(Bind, BlockExpr(BlockTail(<<Let(Bind, Lit)>>, Lit)), Lit),
                     Arm(Bind, Lit)>>)),
        Semi(F0)>>)))
\* fn f() { match a { x if g => match b { y => 1 }, z => 2 } }
ProgMatchNested ==
    FnBody(<<>>, BlockExpr(BlockTail(<<>>,
        Match(Lit, <<ArmGuard(Bind, Lit, Match(Lit, <<Arm(Bind, Lit)>>)),
                     Arm(Bind, Lit)>>))))
\* fn f() { let ref a = { let ref b = &x; &y }; }
ProgLetInLet ==
    FnBody(<<>>, BlockExpr(Block(<<
        Let(BindRef, BlockExpr(BlockTail(<<Let(BindRef, AddrOf(Lit))>>, AddrOf(Lit))))>>)))
\* generator: { yield 1; yield (yield 2) }
ProgYields ==
    GenBody(<<>>, BlockExpr(BlockTail(<<Semi(Yield(Lit))>>, Yield(Yield(Lit)))))
\* fn f() { let ref x = (*a.f)[&i]; let y = ({ &(&b.f, c) } as T, g(&d));
\*          let ref z = &w.f; let v: &T = h().f; }
ProgRefChain ==
    FnBody(<<>>, BlockExpr(Block(<<
        Let(BindRef, Index(Deref(Field(Lit)), AddrOf(Lit))),
        Let(Bind, Tup(<<Cast(BlockExpr(BlockTail(<<>>,
                                AddrOf(Tup(<<AddrOf(Field(Lit)), Lit>>))))),
                        CallOf(AddrOf(Lit))>>)),
        Let(BindRef, AddrOf(Field(Lit))),
        LetRefTy(Bind, Field(F0))>>)))

Terms == {ProgLets, ProgLetRef, ProgQuux, ProgAnd, ProgGen, ProgGenInner, ProgMatch,
          ProgCtrl, ProgConstRef, ProgConstArg, ProgChain, ProgNested, ProgConstTup,
          ProgGenAfter, ProgClosureCtrl, ProgInnerLets, ProgYields, ProgRefChain,
          ProgMatchNested, ProgLetInLet}
Programs == {Flatten(t, 1) : t \in Terms}
\* the body with no nodes: the tree is then built through the ScopeTree methods alone
NoProgram == EmptyMap

(***************************************************************************)
(* Accessors of the HIR: hir::Body, hir::Block, hir::Arm, hir::Local.      *)
(***************************************************************************)
Ids == DOMAIN prog
Kind(n) == prog[n].k
Kids(n) == prog[n].c
Kid(n, i) == prog[n].c[i]
LastKid(n) == prog[n].c[Len(prog[n].c)]
IsExpr(n) == Kind(n) \in ExprKinds
IsPat(n) == Kind(n) \in PatKinds
IsStmt(n) == Kind(n) \in StmtKinds
BodyValue(b) == LastKid(b)
BodyArguments(b) == SubSeq(Kids(b), 1, Len(Kids(b)) - 1)
BlockHasTail(b) == prog[b].f = "tail"
BlockStmts(b) == IF BlockHasTail(b) THEN SubSeq(Kids(b), 1, Len(Kids(b)) - 1) ELSE Kids(b)

\* the HIR node n is a child of, NoneId for the root
HirParent(n) ==
    IF \E p \in Ids : \E i \in 1..Len(Kids(p)) : Kid(p, i) = n
    THEN CHOOSE p \in Ids : \E i \in 1..Len(Kids(p)) : Kid(p, i) = n
    ELSE NoneId
\* n and the nodes above it in the HIR
RECURSIVE HirUp(_)
HirUp(n) == IF n = NoneId THEN {} ELSE {n} \cup UNION {HirUp(p) : p \in {HirParent(n)}}
Within(n, top) == top \in HirUp(n)
\* the nodes from n up to, not including, top
Between(n, top) == {m \in HirUp(n) : m # top /\ Within(m, top)}
\* the body a node belongs to; a closure expression belongs to the body around it
BodyOfNode(n) ==
    LET bs == {b \in HirUp(n) : Kind(b) = "body"}
    IN  IF bs = {} THEN NoneId ELSE CHOOSE b \in bs : \A c \in bs : Within(b, c)
RootBody == 1

(***************************************************************************)
(* ScopeTree construction primitives.  A write that may trip an assert!    *)
(* returns the new map together with ok = "the assertion held".            *)
(***************************************************************************)
\* (a variant that replaces an edge without complaint)
record_scope_parent_replacing(t, child, parent) ==
    [t EXCEPT
        !.pm = IF parent # None THEN Insert(t.pm, child, parent) ELSE t.pm,
        !.ds = IF child.tag = "Destruction" THEN Insert(t.ds, child.id, child) ELSE t.ds]

\* ScopeTree::record_scope_parent; t = [pm, ds, parent, ok]
record_scope_parent(t, child, parent) ==
    [t EXCEPT
        !.pm = IF parent # None THEN Insert(t.pm, child, parent) ELSE t.pm,
        !.ok = t.ok /\ (parent # None => child \notin DOMAIN t.pm),
        !.ds = IF child.tag = "Destruction" /\ (parent # None => child \notin DOMAIN t.pm)
               THEN Insert(t.ds, child.id, child) ELSE t.ds]

\* RegionResolutionVisitor::record_child_scope
record_child_scope(t, child_scope) == record_scope_parent(t, child_scope, t.parent)

\* RegionResolutionVisitor::enter_scope
enter_scope(t, child_scope) ==
    [record_child_scope(t, child_scope) EXCEPT !.parent = child_scope]

\* (a variant that gives every node a Destruction scope)
enter_node_scope_with_dtor_always(t, ts, id) ==
    enter_scope(enter_scope(t, Destruction(id)), Node(id))

\* RegionResolutionVisitor::enter_node_scope_with_dtor
enter_node_scope_with_dtor(t, ts, id) ==
    enter_scope(IF id \in ts THEN enter_scope(t, Destruction(id)) ELSE t, Node(id))

\* the visitor's view of the tree on entry to a handler
Tree == [pm |-> parent_map, ds |-> destruction_scopes, parent |-> cx.parent, ok |-> TRUE]

\* ScopeTree::record_closure_parent; c = [m, ok]
record_closure_parent(c, sub_closure, sup_closure) ==
    [m |-> Insert(c.m, sub_closure, sup_closure),
     ok |-> c.ok /\ sub_closure # sup_closure /\ sub_closure \notin DOMAIN c.m]

\* ScopeTree::record_var_scope; v = [m, ok]
record_var_scope(v, var, lifetime) ==
    [m |-> IF var # item_local_id(lifetime) THEN Insert(v.m, var, lifetime) ELSE v.m,
     ok |-> v.ok /\ var # item_local_id(lifetime)]

\* ScopeTree::record_rvalue_scope (the method); r = [m, ok]
ScopeTree_record_rvalue_scope(r, var, lifetime) ==
    [m |-> Insert(r.m, var, lifetime),
     ok |-> r.ok /\ (lifetime # None => var # item_local_id(lifetime))]

\* (a variant that records whatever cx.var_parent holds)
record_var_lifetime_unchecked(v, var_id) == record_var_scope(v, var_id, cx.var_parent)

\* record_var_lifetime
record_var_lifetime(v, var_id) ==
    IF cx.var_parent = None THEN v ELSE record_var_scope(v, var_id, cx.var_parent)

(***************************************************************************)
(* resolve_local's extended-temporary analysis: pure walks over the HIR of *)
(* the initializer, made before the initializer is visited.                *)
(***************************************************************************)
\* is_binding_pat: the P& grammar
RECURSIVE is_binding_pat(_)
\* (a variant that does not look inside sub-patterns)
is_binding_pat_shallow(pat) == Kind(pat) = "bind" /\ prog[pat].f = "ref"
is_binding_pat(pat) ==
    CASE Kind(pat) = "bind" -> prog[pat].f = "ref"
      [] Kind(pat) = "tuppat" -> \E i \in 1..Len(Kids(pat)) : is_binding_pat(Kid(pat, i))
      [] OTHER -> FALSE

\* record_rvalue_scope (the nested fn): the ET grammar
RECURSIVE record_rvalue_scope(_, _, _)
\* (a variant that records the scope for the innermost expression only)
record_rvalue_scope_innermost_only(r, expr, blk_scope) ==
    IF Kind(expr) \in {"addrof", "deref", "field", "index"}
    THEN record_rvalue_scope(r, Kid(expr, 1), blk_scope)
    ELSE ScopeTree_record_rvalue_scope(r, expr, blk_scope)
record_rvalue_scope(r, expr, blk_scope) ==
    LET r1 == ScopeTree_record_rvalue_scope(r, expr, blk_scope)
    IN  IF Kind(expr) \in {"addrof", "deref", "field", "index"}
        THEN record_rvalue_scope(r1, Kid(expr, 1), blk_scope)
        ELSE r1

\* record_rvalue_scope_if_borrow_expr: the E& grammar
RECURSIVE record_rvalue_scope_if_borrow_expr(_, _, _), borrow_exprs_upto(_, _, _, _)
\* (a variant that does not look through a cast)
record_rvalue_scope_if_borrow_expr_no_cast(r, expr, blk_id) ==
    CASE Kind(expr) = "addrof" ->
            record_rvalue_scope(
                record_rvalue_scope_if_borrow_expr(r, Kid(expr, 1), blk_id),
                Kid(expr, 1), blk_id)
      [] Kind(expr) = "tup" -> borrow_exprs_upto(r, expr, Len(Kids(expr)), blk_id)
      [] Kind(expr) = "blockexpr" ->
            IF BlockHasTail(Kid(expr, 1))
            THEN record_rvalue_scope_if_borrow_expr(r, LastKid(Kid(expr, 1)), blk_id)
            ELSE r
      [] OTHER -> r
record_rvalue_scope_if_borrow_expr(r, expr, blk_id) ==
    CASE Kind(expr) = "addrof" ->
            record_rvalue_scope(
                record_rvalue_scope_if_borrow_expr(r, Kid(expr, 1), blk_id),
                Kid(expr, 1), blk_id)
      [] Kind(expr) = "tup" -> borrow_exprs_upto(r, expr, Len(Kids(expr)), blk_id)
      [] Kind(expr) = "cast" -> record_rvalue_scope_if_borrow_expr(r, Kid(expr, 1), blk_id)
      [] Kind(expr) = "blockexpr" ->
            IF BlockHasTail(Kid(expr, 1))
            THEN record_rvalue_scope_if_borrow_expr(r, LastKid(Kid(expr, 1)), blk_id)
            ELSE r
      [] OTHER -> r
borrow_exprs_upto(r, expr, i, blk_id) ==
    IF i = 0 THEN r
    ELSE record_rvalue_scope_if_borrow_expr(
            borrow_exprs_upto(r, expr, i - 1, blk_id), Kid(expr, i), blk_id)

\* resolve_local, up to its first visit: r = [m, ok]; var_parent is cx.var_parent
\* at the call; pat, init = NoneId when absent
resolve_local(r, var_parent, pat, init) ==
    LET blk_scope == var_parent
        r1 == IF init # NoneId THEN record_rvalue_scope_if_borrow_expr(r, init, blk_scope) ELSE r
    IN  IF init # NoneId /\ pat # NoneId /\ is_binding_pat(pat)
        THEN record_rvalue_scope(r1, init, blk_scope)
        ELSE r1

(***************************************************************************)
(* resolve_expr: what the match on expr.node marks and records.            *)
(***************************************************************************)
\* (a variant that marks the left operand of a short-circuit operator)
terminating_left_operand(n) ==
    CASE Kind(n) \in {"and", "or"} -> {Kid(n, 1)}
      [] Kind(n) = "if" -> {Kid(n, i) : i \in 1..Len(Kids(n))}
      [] Kind(n) = "loop" -> {Kid(n, 1)}
      [] Kind(n) = "while" -> {Kid(n, 1), Kid(n, 2)}
      [] OTHER -> {}

\* (a variant that marks the branches and the loop bodies, not the conditions)
terminating_conditions_unmarked(n) ==
    CASE Kind(n) \in {"and", "or"} -> {Kid(n, 2)}
      [] Kind(n) = "if" -> {Kid(n, i) : i \in 2..Len(Kids(n))}
      [] Kind(n) = "loop" -> {Kid(n, 1)}
      [] Kind(n) = "while" -> {Kid(n, 2)}
      [] OTHER -> {}

\* the ids resolve_expr marks terminating before walking expr n
terminating(n) ==
    CASE Kind(n) \in {"and", "or"} -> {Kid(n, 2)}
      [] Kind(n) = "if" -> {Kid(n, i) : i \in 1..Len(Kids(n))}
      [] Kind(n) = "loop" -> {Kid(n, 1)}
      [] Kind(n) = "while" -> {Kid(n, 1), Kid(n, 2)}
      [] OTHER -> {}

\* ExprYield: mark scope and its parents up to, not including, a CallSite
RECURSIVE mark_yield(_, _, _, _)
\* (a variant that walks on through CallSite scopes)
mark_yield_to_root(y, pm, scope, data) ==
    LET y1 == Insert(y, scope, data)
    IN  IF scope \notin DOMAIN pm THEN y1
        ELSE mark_yield(y1, pm, pm[scope], data)
\* (a variant that keeps the entry a scope has)
mark_yield_first_kept(y, pm, scope, data) ==
    LET y1 == IF scope \in DOMAIN y THEN y ELSE Insert(y, scope, data)
    IN  IF scope \notin DOMAIN pm \/ pm[scope].tag = "CallSite" THEN y1
        ELSE mark_yield(y1, pm, pm[scope], data)
mark_yield(y, pm, scope, data) ==
    LET y1 == Insert(y, scope, data)
    IN  IF scope \notin DOMAIN pm \/ pm[scope].tag = "CallSite" THEN y1
        ELSE mark_yield(y1, pm, pm[scope], data)

(***************************************************************************)
(* The walk.  A frame is a pending visit; sv is what the handler saved.    *)
(***************************************************************************)
Saved(ec, c, ts) == [ec |-> ec, cx |-> c, ts |-> ts]
NoSave == Saved(0, [root_id |-> NoneId, var_parent |-> None, parent |-> None], {})
Frame(op, n, i, sv) == [op |-> op, n |-> n, i |-> i, sv |-> sv]
Visit(op, n) == Frame(op, n, 0, NoSave)

\* the visit_* method the Visitor dispatches to for child node n
VisitOf(n) ==
    CASE IsExpr(n) -> Visit("expr", n)
      [] IsPat(n) -> Visit("pat", n)
      [] IsStmt(n) -> Visit("stmt", n)
      [] Kind(n) = "block" -> Visit("block", n)
      [] Kind(n) = "arm" -> Visit("arm", n)
      [] Kind(n) = "body" -> Visit("body", n)

VisitAll(ns) == [i \in 1..Len(ns) |-> VisitOf(ns[i])]

Top == Head(stack)
Running(op) == fatal = "" /\ stack # <<>> /\ Top.op = op
Failed(ok, msg) == IF ok THEN "" ELSE msg

\* (a variant that leaves the Arguments scope as the parent of the argument patterns)
argument_cx_parent_kept(t, value) ==
    [root_id |-> value, var_parent |-> t.parent, parent |-> t.parent]

\* (a variant that keeps the root id of the outermost body)
argument_cx_root_kept(t, value) ==
    [root_id |-> IF cx.root_id # NoneId THEN cx.root_id ELSE value,
     var_parent |-> t.parent, parent |-> None]

\* visit_body: the Context the argument patterns are visited in
\* (cx.var_parent = cx.parent.take())
argument_cx(t, value) ==
    [root_id |-> value, var_parent |-> t.parent, parent |-> None]

\* (a variant that marks the value of a function's body only)
body_terminating_scopes_fn_only(body) ==
    IF prog[body].f = "const" THEN {} ELSE {BodyValue(body)}

\* visit_body: the terminating scopes a body starts with
\* (outer_ts = mem::replace(..); terminating_scopes.insert(body.value))
body_terminating_scopes(body) == {BodyValue(body)}

\* (a variant that opens Arguments beside CallSite, under the parent found)
VisitBody_sibling_scopes ==
    /\ Running("body")
    /\ LET body == Top.n
           value == BodyValue(body)
           ct == IF cx.root_id # NoneId
                 THEN record_closure_parent([m |-> closure_tree, ok |-> TRUE], value, cx.root_id)
                 ELSE [m |-> closure_tree, ok |-> TRUE]
           c == enter_scope(Tree, CallSite(value))
           t == enter_scope([c EXCEPT !.parent = cx.parent], Arguments(value))
       IN  /\ expr_count' = 0
           /\ terminating_scopes' = body_terminating_scopes(body)
           /\ closure_tree' = ct.m
           /\ parent_map' = t.pm
           /\ destruction_scopes' = t.ds
           /\ cx' = argument_cx(t, value)
           /\ fatal' = Failed(ct.ok /\ t.ok, "assert")
           /\ stack' = VisitAll(BodyArguments(body))
                        \o <<Visit("body_value", body),
                             Frame("body_exit", body, 0,
                                   Saved(expr_count, cx, terminating_scopes))>>
                        \o Tail(stack)
    /\ UNCHANGED <<ffi_vars, def_id, prog, var_map, rvalue_scopes, yield_in_scope, body_expr_count, q>>

\* (a variant that makes the CallSite scope of every body a root)
VisitBody_own_root ==
    /\ Running("body")
    /\ LET body == Top.n
           value == BodyValue(body)
           ct == IF cx.root_id # NoneId
                 THEN record_closure_parent([m |-> closure_tree, ok |-> TRUE], value, cx.root_id)
                 ELSE [m |-> closure_tree, ok |-> TRUE]
           t == enter_scope(enter_scope([Tree EXCEPT !.parent = None], CallSite(value)),
                            Arguments(value))
       IN  /\ expr_count' = 0
           /\ terminating_scopes' = body_terminating_scopes(body)
           /\ closure_tree' = ct.m
           /\ parent_map' = t.pm
           /\ destruction_scopes' = t.ds
           /\ cx' = argument_cx(t, value)
           /\ fatal' = Failed(ct.ok /\ t.ok, "assert")
           /\ stack' = VisitAll(BodyArguments(body))
                        \o <<Visit("body_value", body),
                             Frame("body_exit", body, 0,
                                   Saved(expr_count, cx, terminating_scopes))>>
                        \o Tail(stack)
    /\ UNCHANGED <<ffi_vars, def_id, prog, var_map, rvalue_scopes, yield_in_scope, body_expr_count, q>>

\* visit_body, up to the visit of the first argument pattern
VisitBody ==
    /\ Running("body")
    /\ LET body == Top.n
           value == BodyValue(body)
           ct == IF cx.root_id # NoneId
                 THEN record_closure_parent([m |-> closure_tree, ok |-> TRUE], value, cx.root_id)
                 ELSE [m |-> closure_tree, ok |-> TRUE]
           t == enter_scope(enter_scope(Tree, CallSite(value)), Arguments(value))
       IN  /\ expr_count' = 0
           /\ terminating_scopes' = body_terminating_scopes(body)
           /\ closure_tree' = ct.m
           /\ parent_map' = t.pm
           /\ destruction_scopes' = t.ds
           /\ cx' = argument_cx(t, value)
           /\ fatal' = Failed(ct.ok /\ t.ok, "assert")
           /\ stack' = VisitAll(BodyArguments(body))
                        \o <<Visit("body_value", body),
                             Frame("body_exit", body, 0,
                                   Saved(expr_count, cx, terminating_scopes))>>
                        \o Tail(stack)
    /\ UNCHANGED <<ffi_vars, def_id, prog, var_map, rvalue_scopes, yield_in_scope, body_expr_count, q>>

\* visit_body, from after the arguments to the visit of the body's value
VisitBodyValue ==
    /\ Running("body_value")
    /\ LET body == Top.n
           value == BodyValue(body)
           r == IF prog[body].f = "const"
                THEN resolve_local([m |-> rvalue_scopes, ok |-> TRUE], None, NoneId, value)
                ELSE [m |-> rvalue_scopes, ok |-> TRUE]
       IN  /\ cx' = [cx EXCEPT !.parent = cx.var_parent,
                               !.var_parent = IF prog[body].f = "const" THEN None
                                              ELSE cx.var_parent]
           /\ rvalue_scopes' = r.m
           /\ fatal' = Failed(r.ok, "assert")
           /\ stack' = <<Visit("expr", value)>> \o Tail(stack)
    /\ UNCHANGED <<ffi_vars, def_id, prog, expr_count, terminating_scopes, parent_map, var_map,
                   destruction_scopes, closure_tree, yield_in_scope, body_expr_count, q>>

\* (a variant that leaves the counter of the nested body in place)
VisitBodyExit_counter_kept ==
    /\ Running("body_exit")
    /\ body_expr_count' = IF prog[Top.n].f = "gen"
                          THEN Insert(body_expr_count, BodyValue(Top.n), expr_count)
                          ELSE body_expr_count
    /\ expr_count' = expr_count
    /\ cx' = Top.sv.cx
    /\ terminating_scopes' = Top.sv.ts
    /\ stack' = Tail(stack)
    /\ UNCHANGED <<ffi_vars, def_id, prog, parent_map, var_map, destruction_scopes, rvalue_scopes,
                   closure_tree, yield_in_scope, fatal, q>>

\* (a variant that leaves the terminating scopes of the nested body in place)
VisitBodyExit_terminating_kept ==
    /\ Running("body_exit")
    /\ body_expr_count' = IF prog[Top.n].f = "gen"
                          THEN Insert(body_expr_count, BodyValue(Top.n), expr_count)
                          ELSE body_expr_count
    /\ expr_count' = Top.sv.ec
    /\ cx' = Top.sv.cx
    /\ terminating_scopes' = terminating_scopes
    /\ stack' = Tail(stack)
    /\ UNCHANGED <<ffi_vars, def_id, prog, parent_map, var_map, destruction_scopes, rvalue_scopes,
                   closure_tree, yield_in_scope, fatal, q>>

\* visit_body, after the body's value has been visited
VisitBodyExit ==
    /\ Running("body_exit")
    /\ body_expr_count' = IF prog[Top.n].f = "gen"
                          THEN Insert(body_expr_count, BodyValue(Top.n), expr_count)
                          ELSE body_expr_count
    /\ expr_count' = Top.sv.ec
    /\ cx' = Top.sv.cx
    /\ terminating_scopes' = Top.sv.ts
    /\ stack' = Tail(stack)
    /\ UNCHANGED <<ffi_vars, def_id, prog, parent_map, var_map, destruction_scopes, rvalue_scopes,
                   closure_tree, yield_in_scope, fatal, q>>

\* (a variant that keeps the var_parent at a match)
ResolveExpr_match_var_parent_kept ==
    /\ Running("expr")
    /\ LET n == Top.n
           t == enter_node_scope_with_dtor(Tree, terminating_scopes, n)
       IN  /\ expr_count' = expr_count + 1
           /\ parent_map' = t.pm
           /\ destruction_scopes' = t.ds
           /\ terminating_scopes' = terminating_scopes \cup terminating(n)
           /\ cx' = [cx EXCEPT !.parent = t.parent,
                               !.var_parent = cx.var_parent]
           /\ yield_in_scope' =
                IF Kind(n) = "yield"
                THEN mark_yield(yield_in_scope, t.pm, Node(n), <<n, expr_count + 1>>)
                ELSE yield_in_scope
           /\ fatal' = Failed(t.ok, "assert")
           /\ stack' = VisitAll(Kids(n))
                        \o <<Frame("expr_exit", n, 0, Saved(0, cx, {}))>> \o Tail(stack)
    /\ UNCHANGED <<ffi_vars, def_id, prog, var_map, rvalue_scopes, closure_tree, body_expr_count, q>>

\* resolve_expr, up to the walk of the expression's children
ResolveExpr ==
    /\ Running("expr")
    /\ LET n == Top.n
           t == enter_node_scope_with_dtor(Tree, terminating_scopes, n)
       IN  /\ expr_count' = expr_count + 1
           /\ parent_map' = t.pm
           /\ destruction_scopes' = t.ds
           /\ terminating_scopes' = terminating_scopes \cup terminating(n)
           /\ cx' = [cx EXCEPT !.parent = t.parent,
                               !.var_parent = IF Kind(n) = "match" THEN t.parent
                                              ELSE cx.var_parent]
           /\ yield_in_scope' =
                IF Kind(n) = "yield"
                THEN mark_yield(yield_in_scope, t.pm, Node(n), <<n, expr_count + 1>>)
                ELSE yield_in_scope
           /\ fatal' = Failed(t.ok, "assert")
           /\ stack' = VisitAll(Kids(n))
                        \o <<Frame("expr_exit", n, 0, Saved(0, cx, {}))>> \o Tail(stack)
    /\ UNCHANGED <<ffi_vars, def_id, prog, var_map, rvalue_scopes, closure_tree, body_expr_count, q>>

\* (a variant that leaves the Context as the walk left it)
ResolveExprExit_cx_kept ==
    /\ Running("expr_exit")
    /\ cx' = cx
    /\ stack' = Tail(stack)
    /\ UNCHANGED <<ffi_vars, def_id, prog, expr_count, terminating_scopes, tree_vars, fatal, q>>

\* (a variant that puts back the var_parent and leaves the parent)
ResolveExprExit_parent_kept ==
    /\ Running("expr_exit")
    /\ cx' = [Top.sv.cx EXCEPT !.parent = cx.parent]
    /\ stack' = Tail(stack)
    /\ UNCHANGED <<ffi_vars, def_id, prog, expr_count, terminating_scopes, tree_vars, fatal, q>>

\* resolve_expr, after the walk: visitor.cx = prev_cx
ResolveExprExit ==
    /\ Running("expr_exit")
    /\ cx' = Top.sv.cx
    /\ stack' = Tail(stack)
    /\ UNCHANGED <<ffi_vars, def_id, prog, expr_count, terminating_scopes, tree_vars, fatal, q>>

\* resolve_block, up to the loop over the block's statements
ResolveBlock ==
    /\ Running("block")
    /\ LET blk == Top.n
           t == enter_node_scope_with_dtor(Tree, terminating_scopes, blk)
           stmts == BlockStmts(blk)
       IN  /\ parent_map' = t.pm
           /\ destruction_scopes' = t.ds
           /\ cx' = [cx EXCEPT !.parent = t.parent, !.var_parent = t.parent]
           /\ fatal' = Failed(t.ok, "assert")
           /\ stack' = [i \in 1..Len(stmts) |-> Frame("block_stmt", blk, i - 1, NoSave)]
                        \o (IF BlockHasTail(blk) THEN <<Visit("expr", LastKid(blk))>> ELSE <<>>)
                        \o <<Frame("block_exit", blk, 0, Saved(0, cx, {}))>>
                        \o Tail(stack)
    /\ UNCHANGED <<ffi_vars, def_id, prog, expr_count, terminating_scopes, var_map, rvalue_scopes,
                   closure_tree, yield_in_scope, body_expr_count, q>>

\* (a variant that records the Remainder scope without entering it)
ResolveBlockStmt_scope_not_entered ==
    /\ Running("block_stmt")
    /\ LET blk == Top.n
           i == Top.i
           statement == BlockStmts(blk)[i + 1]
           decl == Kind(statement) \in {"let", "item"}
           t == IF decl THEN record_child_scope(Tree, Remainder(blk, i)) ELSE Tree
       IN  /\ parent_map' = t.pm
           /\ destruction_scopes' = t.ds
           /\ cx' = cx
           /\ fatal' = Failed(t.ok, "assert")
           /\ stack' = <<Visit("stmt", statement)>> \o Tail(stack)
    /\ UNCHANGED <<ffi_vars, def_id, prog, expr_count, terminating_scopes, var_map, rvalue_scopes,
                   closure_tree, yield_in_scope, body_expr_count, q>>

\* resolve_block, one turn of the loop: statement i, up to visit_stmt
ResolveBlockStmt ==
    /\ Running("block_stmt")
    /\ LET blk == Top.n
           i == Top.i
           statement == BlockStmts(blk)[i + 1]
           decl == Kind(statement) \in {"let", "item"}
           t == IF decl THEN enter_scope(Tree, Remainder(blk, i)) ELSE Tree
       IN  /\ parent_map' = t.pm
           /\ destruction_scopes' = t.ds
           /\ cx' = IF decl THEN [cx EXCEPT !.parent = t.parent, !.var_parent = t.parent]
                    ELSE cx
           /\ fatal' = Failed(t.ok, "assert")
           /\ stack' = <<Visit("stmt", statement)>> \o Tail(stack)
    /\ UNCHANGED <<ffi_vars, def_id, prog, expr_count, terminating_scopes, var_map, rvalue_scopes,
                   closure_tree, yield_in_scope, body_expr_count, q>>

\* resolve_block, after the tail expression: visitor.cx = prev_cx
ResolveBlockExit ==
    /\ Running("block_exit")
    /\ cx' = Top.sv.cx
    /\ stack' = Tail(stack)
    /\ UNCHANGED <<ffi_vars, def_id, prog, expr_count, terminating_scopes, tree_vars, fatal, q>>

\* (a variant that does not mark the statement terminating)
ResolveStmt_unmarked ==
    /\ Running("stmt")
    /\ LET stmt_id == Top.n
           ts == terminating_scopes
           t == enter_node_scope_with_dtor(Tree, ts, stmt_id)
       IN  /\ terminating_scopes' = ts
           /\ parent_map' = t.pm
           /\ destruction_scopes' = t.ds
           /\ cx' = [cx EXCEPT !.parent = t.parent]
           /\ fatal' = Failed(t.ok, "assert")
           /\ stack' = (CASE Kind(stmt_id) = "let" -> <<Visit("local", stmt_id)>>
                          [] Kind(stmt_id) = "semi" -> <<Visit("expr", Kid(stmt_id, 1))>>
                          [] OTHER -> <<>>)
                        \o <<Frame("stmt_exit", stmt_id, 0, Saved(0, cx, {}))>>
                        \o Tail(stack)
    /\ UNCHANGED <<ffi_vars, def_id, prog, expr_count, var_map, rvalue_scopes, closure_tree,
                   yield_in_scope, body_expr_count, q>>

\* (a variant that walks the statement under the parent it found)
ResolveStmt_parent_not_entered ==
    /\ Running("stmt")
    /\ LET stmt_id == Top.n
           ts == terminating_scopes \cup {stmt_id}
           t == enter_node_scope_with_dtor(Tree, ts, stmt_id)
       IN  /\ terminating_scopes' = ts
           /\ parent_map' = t.pm
           /\ destruction_scopes' = t.ds
           /\ cx' = cx
           /\ fatal' = Failed(t.ok, "assert")
           /\ stack' = (CASE Kind(stmt_id) = "let" -> <<Visit("local", stmt_id)>>
                          [] Kind(stmt_id) = "semi" -> <<Visit("expr", Kid(stmt_id, 1))>>
                          [] OTHER -> <<>>)
                        \o <<Frame("stmt_exit", stmt_id, 0, Saved(0, cx, {}))>>
                        \o Tail(stack)
    /\ UNCHANGED <<ffi_vars, def_id, prog, expr_count, var_map, rvalue_scopes, closure_tree,
                   yield_in_scope, body_expr_count, q>>

\* resolve_stmt, up to walk_stmt
ResolveStmt ==
    /\ Running("stmt")
    /\ LET stmt_id == Top.n
           ts == terminating_scopes \cup {stmt_id}
           t == enter_node_scope_with_dtor(Tree, ts, stmt_id)
       IN  /\ terminating_scopes' = ts
           /\ parent_map' = t.pm
           /\ destruction_scopes' = t.ds
           /\ cx' = [cx EXCEPT !.parent = t.parent]
           /\ fatal' = Failed(t.ok, "assert")
           /\ stack' = (CASE Kind(stmt_id) = "let" -> <<Visit("local", stmt_id)>>
                          [] Kind(stmt_id) = "semi" -> <<Visit("expr", Kid(stmt_id, 1))>>
                          [] OTHER -> <<>>)
                        \o <<Frame("stmt_exit", stmt_id, 0, Saved(0, cx, {}))>>
                        \o Tail(stack)
    /\ UNCHANGED <<ffi_vars, def_id, prog, expr_count, var_map, rvalue_scopes, closure_tree,
                   yield_in_scope, body_expr_count, q>>

\* (a variant that does not put the parent back)
ResolveStmtExit_parent_kept ==
    /\ Running("stmt_exit")
    /\ stack' = Tail(stack)
    /\ UNCHANGED <<ffi_vars, def_id, prog, cx, expr_count, terminating_scopes, tree_vars, fatal, q>>

\* resolve_stmt, after walk_stmt: visitor.cx.parent = prev_parent
ResolveStmtExit ==
    /\ Running("stmt_exit")
    /\ cx' = [cx EXCEPT !.parent = Top.sv.cx.parent]
    /\ stack' = Tail(stack)
    /\ UNCHANGED <<ffi_vars, def_id, prog, expr_count, terminating_scopes, tree_vars, fatal, q>>

\* (a variant that walks the local again after resolve_local has visited it)
ResolveLocal_walked_again ==
    /\ Running("local")
    /\ LET l == Top.n
           pat == Kid(l, 1)
           init == IF HasInit(prog[l].f) THEN Kid(l, 2) ELSE NoneId
           r == resolve_local([m |-> rvalue_scopes, ok |-> TRUE], cx.var_parent, pat, init)
       IN  /\ rvalue_scopes' = r.m
           /\ fatal' = Failed(r.ok, "assert")
           /\ stack' = <<Visit("pat", pat)>>
                        \o (IF init # NoneId THEN <<Visit("expr", init)>> ELSE <<>>)
                        \o <<Visit("pat", pat)>>
                        \o Tail(stack)
    /\ UNCHANGED <<ffi_vars, def_id, prog, cx, expr_count, terminating_scopes, parent_map, var_map,
                   destruction_scopes, closure_tree, yield_in_scope, body_expr_count, q>>

\* visit_local = resolve_local(Some(pat), init), up to visit_pat
ResolveLocal ==
    /\ Running("local")
    /\ LET l == Top.n
           pat == Kid(l, 1)
           init == IF HasInit(prog[l].f) THEN Kid(l, 2) ELSE NoneId
           r == resolve_local([m |-> rvalue_scopes, ok |-> TRUE], cx.var_parent, pat, init)
       IN  /\ rvalue_scopes' = r.m
           /\ fatal' = Failed(r.ok, "assert")
           /\ stack' = <<Visit("pat", pat)>>
                        \o (IF init # NoneId THEN <<Visit("expr", init)>> ELSE <<>>)
                        \o Tail(stack)
    /\ UNCHANGED <<ffi_vars, def_id, prog, cx, expr_count, terminating_scopes, parent_map, var_map,
                   destruction_scopes, closure_tree, yield_in_scope, body_expr_count, q>>

\* resolve_pat, up to walk_pat
ResolvePat ==
    /\ Running("pat")
    /\ LET pat == Top.n
           t == record_child_scope(Tree, Node(pat))
           v == IF Kind(pat) = "bind"
                THEN record_var_lifetime([m |-> var_map, ok |-> TRUE], pat)
                ELSE [m |-> var_map, ok |-> TRUE]
       IN  /\ parent_map' = t.pm
           /\ destruction_scopes' = t.ds
           /\ var_map' = v.m
           /\ fatal' = Failed(t.ok /\ v.ok, "assert")
           /\ stack' = VisitAll(Kids(pat)) \o Tail(stack)
    /\ UNCHANGED <<ffi_vars, def_id, prog, cx, expr_count, terminating_scopes, rvalue_scopes,
                   closure_tree, yield_in_scope, body_expr_count, q>>

\* resolve_arm, up to walk_arm
ResolveArm ==
    /\ Running("arm")
    /\ LET arm == Top.n
       IN  /\ terminating_scopes' = terminating_scopes
                \cup {LastKid(arm)}
                \cup (IF prog[arm].f = "guard" THEN {Kid(arm, 2)} ELSE {})
           /\ stack' = VisitAll(Kids(arm)) \o Tail(stack)
    /\ UNCHANGED <<ffi_vars, def_id, prog, cx, expr_count, tree_vars, fatal, q>>

(***************************************************************************)
(* ScopeTree queries.  Bug is the outcome of a query that ends in bug!().  *)
(***************************************************************************)
Bug == [tag |-> "Bug", id |-> 0, idx |-> 0]
BufLen == 32

\* ScopeTree::opt_encl_scope
opt_encl_scope(id) == IF id \in DOMAIN parent_map THEN parent_map[id] ELSE None

\* ScopeTree::opt_destruction_scope
opt_destruction_scope(n) ==
    IF n \in DOMAIN destruction_scopes THEN destruction_scopes[n] ELSE None

\* ScopeTree::var_scope
var_scope(var_id) == IF var_id \in DOMAIN var_map THEN var_map[var_id] ELSE Bug

\* ScopeTree::yield_in_scope
ScopeTree_yield_in_scope(scope) ==
    IF scope \in DOMAIN yield_in_scope THEN yield_in_scope[scope] ELSE None

\* ScopeTree::body_expr_count
ScopeTree_body_expr_count(body_id) ==
    IF body_id \in DOMAIN body_expr_count THEN body_expr_count[body_id] ELSE None

\* ScopeTree::temporary_scope: the walk from id to the scope below a Destruction
RECURSIVE innermost_terminating(_)
\* (a variant that returns the Destruction scope it stops at)
innermost_terminating_dtor(id) ==
    IF id \notin DOMAIN parent_map THEN None
    ELSE IF parent_map[id].tag = "Destruction" THEN parent_map[id]
    ELSE innermost_terminating(parent_map[id])
innermost_terminating(id) ==
    IF id \notin DOMAIN parent_map THEN None
    ELSE IF parent_map[id].tag = "Destruction" THEN id
    ELSE innermost_terminating(parent_map[id])

\* (a variant that takes a designated scope of None for no designated scope)
temporary_scope_none_skipped(expr_id) ==
    IF expr_id \in DOMAIN rvalue_scopes /\ rvalue_scopes[expr_id] # None
    THEN rvalue_scopes[expr_id]
    ELSE innermost_terminating(Node(expr_id))

\* ScopeTree::temporary_scope
temporary_scope(expr_id) ==
    IF expr_id \in DOMAIN rvalue_scopes THEN rvalue_scopes[expr_id]
    ELSE innermost_terminating(Node(expr_id))

\* ScopeTree::is_subscope_of
RECURSIVE is_subscope_of(_, _)
\* (a variant that looks at the parent before it looks at the scope itself)
is_subscope_of_parent_first(subscope, superscope) ==
    IF opt_encl_scope(subscope) = None THEN FALSE
    ELSE IF opt_encl_scope(subscope) = superscope THEN TRUE
    ELSE is_subscope_of(opt_encl_scope(subscope), superscope)
is_subscope_of(subscope, superscope) ==
    IF superscope = subscope THEN TRUE
    ELSE IF opt_encl_scope(subscope) = None THEN FALSE
    ELSE is_subscope_of(opt_encl_scope(subscope), superscope)

\* (a variant that tests one direction)
scopes_intersect_one_way(scope1, scope2) == is_subscope_of(scope1, scope2)

\* ScopeTree::scopes_intersect
scopes_intersect(scope1, scope2) ==
    is_subscope_of(scope1, scope2) \/ is_subscope_of(scope2, scope1)

\* ScopeTree::closure_is_enclosed_by
RECURSIVE closure_is_enclosed_by(_, _)
closure_is_enclosed_by(sub_closure, sup_closure) ==
    IF sub_closure = sup_closure THEN TRUE
    ELSE IF sub_closure \in DOMAIN closure_tree
         THEN closure_is_enclosed_by(closure_tree[sub_closure], sup_closure)
         ELSE FALSE

\* ancestors_of: scope and its ancestors, narrow to broad; the first BufLen of
\* them go to the stack buffer, the rest to the heap vector
RECURSIVE ancestors_vec(_), ancestors_buf(_, _)
ancestors_vec(scope) ==
    <<scope>> \o (IF scope \in DOMAIN parent_map THEN ancestors_vec(parent_map[scope])
                  ELSE <<>>)
ancestors_buf(scope, i) ==
    IF i < BufLen
    THEN <<scope>> \o (IF scope \in DOMAIN parent_map
                       THEN ancestors_buf(parent_map[scope], i + 1) ELSE <<>>)
    ELSE ancestors_vec(scope)
ancestors_of(scope) == ancestors_buf(scope, 0)

\* the loop of nearest_common_ancestor; a_index, b_index are positions counted
\* from 1, so the source's index 0 is position 1
RECURSIVE common_suffix_start(_, _, _, _)
\* (a variant that returns the element at which the chains diverge)
common_suffix_start_off_by_one(a_ancestors, b_ancestors, a_index, b_index) ==
    IF a_index = 1 THEN a_ancestors[1]
    ELSE IF b_index = 1 THEN b_ancestors[1]
    ELSE IF a_ancestors[a_index - 1] # b_ancestors[b_index - 1] THEN a_ancestors[a_index - 1]
    ELSE common_suffix_start(a_ancestors, b_ancestors, a_index - 1, b_index - 1)
common_suffix_start(a_ancestors, b_ancestors, a_index, b_index) ==
    IF a_index = 1 THEN a_ancestors[1]
    ELSE IF b_index = 1 THEN b_ancestors[1]
    ELSE IF a_ancestors[a_index - 1] # b_ancestors[b_index - 1] THEN a_ancestors[a_index]
    ELSE common_suffix_start(a_ancestors, b_ancestors, a_index - 1, b_index - 1)

\* (a variant that reads b's root from b's chain)
different_roots_own_chains(a_ancestors, b_ancestors, scope_a, scope_b) ==
    LET a_root_scope == a_ancestors[Len(a_ancestors)]
        b_root_scope == b_ancestors[Len(b_ancestors)]
    IN  IF a_root_scope.tag = "Destruction" /\ b_root_scope.tag = "Destruction"
        THEN IF closure_is_enclosed_by(a_root_scope.id, b_root_scope.id) THEN scope_b
             ELSE IF closure_is_enclosed_by(b_root_scope.id, a_root_scope.id) THEN scope_a
             ELSE Bug
        ELSE Bug

\* the branch of nearest_common_ancestor taken when the two chains end at
\* different scopes: both roots are read from a's chain
different_roots(a_ancestors, b_ancestors, scope_a, scope_b) ==
    LET a_root_scope == a_ancestors[Len(a_ancestors)]
        b_root_scope == a_ancestors[Len(a_ancestors)]
    IN  IF a_root_scope.tag = "Destruction" /\ b_root_scope.tag = "Destruction"
        THEN IF closure_is_enclosed_by(a_root_scope.id, b_root_scope.id) THEN scope_b
             ELSE IF closure_is_enclosed_by(b_root_scope.id, a_root_scope.id) THEN scope_a
             ELSE Bug
        ELSE Bug

\* ScopeTree::nearest_common_ancestor
nearest_common_ancestor(scope_a, scope_b) ==
    IF scope_a = scope_b THEN scope_a
    ELSE LET a_ancestors == ancestors_of(scope_a)
             b_ancestors == ancestors_of(scope_b)
         IN  IF a_ancestors[Len(a_ancestors)] # b_ancestors[Len(b_ancestors)]
             THEN different_roots(a_ancestors, b_ancestors, scope_a, scope_b)
             ELSE common_suffix_start(a_ancestors, b_ancestors,
                                      Len(a_ancestors), Len(b_ancestors))

(***************************************************************************)
(* region_scope_tree: a fresh visitor over the body owned by the item.     *)
(***************************************************************************)
NoQuery == [op |-> "", a |-> None, b |-> None, ret |-> None]

\* no MIR body is being looked at
NoMir == [is_function |-> FALSE, body_can_unwind |-> FALSE, basic_blocks |-> <<>>]
NoFfi ==
    /\ mir = NoMir
    /\ lints = <<>>
    /\ tainted = FALSE

EmptyTree ==
    /\ parent_map = EmptyMap
    /\ var_map = EmptyMap
    /\ destruction_scopes = EmptyMap
    /\ rvalue_scopes = EmptyMap
    /\ closure_tree = EmptyMap
    /\ yield_in_scope = EmptyMap
    /\ body_expr_count = EmptyMap

\* the bodies of the owner: the item's own and those of the closures in it
Bodies == {n \in Ids : Kind(n) = "body"}

\* tcx.is_closure
is_closure(d) == HirParent(d) # NoneId /\ Kind(HirParent(d)) = "closure"

\* tcx.closure_base_def_id: the item a closure is in, the item itself otherwise
RECURSIVE closure_base_def_id(_)
closure_base_def_id(d) ==
    IF is_closure(d)
    THEN CHOOSE base \in {closure_base_def_id(p) : p \in {BodyOfNode(HirParent(d))}} : TRUE
    ELSE d

\* (a variant that walks the body of the very item asked about)
Init_own_body ==
    /\ prog \in Programs
    /\ def_id \in Bodies
    /\ NoFfi
    /\ stack = <<Visit("body", def_id)>>
    /\ cx = [root_id |-> NoneId, var_parent |-> None, parent |-> None]
    /\ expr_count = 0
    /\ terminating_scopes = {}
    /\ EmptyTree
    /\ fatal = ""
    /\ q = NoQuery

\* region_scope_tree: a closure is answered with the tree of its base item
Init ==
    /\ prog \in Programs
    /\ def_id \in Bodies
    /\ NoFfi
    /\ stack = <<Visit("body", closure_base_def_id(def_id))>>
    /\ cx = [root_id |-> NoneId, var_parent |-> None, parent |-> None]
    /\ expr_count = 0
    /\ terminating_scopes = {}
    /\ EmptyTree
    /\ fatal = ""
    /\ q = NoQuery

Build ==
    \/ VisitBody \/ VisitBodyValue \/ VisitBodyExit
    \/ ResolveExpr \/ ResolveExprExit
    \/ ResolveBlock \/ ResolveBlockStmt \/ ResolveBlockExit
    \/ ResolveStmt \/ ResolveStmtExit \/ ResolveLocal
    \/ ResolvePat \/ ResolveArm

(***************************************************************************)
(* Queries of a tree: made of the built tree once the walk has returned,   *)
(* or of a tree under construction through the ScopeTree methods.          *)
(***************************************************************************)
Built == stack = <<>> /\ fatal = ""

\* (a variant that keeps what temporary_scope found in rvalue_scopes)
Query_caching(op, a, b, ret) ==
    /\ q' = [op |-> op, a |-> a, b |-> b, ret |-> ret]
    /\ fatal' = IF ret = Bug THEN "bug" ELSE fatal
    /\ rvalue_scopes' = IF op = "temporary_scope"
                        THEN Insert(rvalue_scopes, a.id, ret) ELSE rvalue_scopes
    /\ UNCHANGED <<ffi_vars, visitor_vars, parent_map, var_map, destruction_scopes,
                   closure_tree, yield_in_scope, body_expr_count>>

Query(op, a, b, ret) ==
    /\ q' = [op |-> op, a |-> a, b |-> b, ret |-> ret]
    /\ fatal' = IF ret = Bug THEN "bug" ELSE fatal
    /\ UNCHANGED <<ffi_vars, visitor_vars, tree_vars>>

\* a query that cannot fail: one that returns a bool, a count or a span and a count
QueryBool(op, a, b, ret) ==
    /\ q' = [op |-> op, a |-> a, b |-> b, ret |-> ret]
    /\ UNCHANGED <<ffi_vars, visitor_vars, tree_vars, fatal>>

\* the scopes of the tree, and the Node scope of every node of the body
Scopes == DOMAIN parent_map \cup Range(parent_map) \cup {Node(n) : n \in Ids}

QueryTemporaryScope ==
    /\ Built
    /\ \E e \in {n \in Ids : IsExpr(n)} :
          Query("temporary_scope", Node(e), None, temporary_scope(e))

QueryVarScope ==
    /\ Built
    /\ \E v \in {n \in Ids : IsExpr(n) \/ IsPat(n)} :
          Query("var_scope", Node(v), None, var_scope(v))

Next == Build \/ QueryTemporaryScope \/ QueryVarScope

Spec == Init /\ [][Next]_vars

(***************************************************************************)
(* Every query of a built tree.  A query changes nothing of the tree, so   *)
(* the queries other than temporary_scope and var_scope are followed as    *)
(* the first query of the built tree, and temporary_scope and var_scope    *)
(* are asked after any of them, and again.                                 *)
(***************************************************************************)
QueryOptEnclScope ==
    /\ Built /\ q = NoQuery
    /\ \E id \in Scopes : Query("opt_encl_scope", id, None, opt_encl_scope(id))

QueryOptDestructionScope ==
    /\ Built /\ q = NoQuery
    /\ \E n \in Ids : Query("opt_destruction_scope", Node(n), None, opt_destruction_scope(n))

QueryYieldInScope ==
    /\ Built /\ q = NoQuery
    /\ \E scope \in Scopes :
          QueryBool("yield_in_scope", scope, None, ScopeTree_yield_in_scope(scope))

QueryBodyExprCount ==
    /\ Built /\ q = NoQuery
    /\ \E body \in Bodies :
          QueryBool("body_expr_count", Node(BodyValue(body)), None,
                    ScopeTree_body_expr_count(BodyValue(body)))

QueryBuiltIsSubscopeOf ==
    /\ Built /\ q = NoQuery
    /\ \E a \in Scopes, b \in Scopes :
          QueryBool("is_subscope_of", a, b, is_subscope_of(a, b))

QueryBuiltScopesIntersect ==
    /\ Built /\ q = NoQuery
    /\ \E a \in Scopes, b \in Scopes :
          QueryBool("scopes_intersect", a, b, scopes_intersect(a, b))

QueryBuiltNearestCommonAncestor ==
    /\ Built /\ q = NoQuery
    /\ \E a \in Scopes, b \in Scopes :
          Query("nearest_common_ancestor", a, b, nearest_common_ancestor(a, b))

NextQuery ==
    \/ Build
    \/ QueryTemporaryScope \/ QueryVarScope
    \/ QueryOptEnclScope \/ QueryOptDestructionScope
    \/ QueryYieldInScope \/ QueryBodyExprCount
    \/ QueryBuiltIsSubscopeOf \/ QueryBuiltScopesIntersect
    \/ QueryBuiltNearestCommonAncestor

\* the queries are asked of the trees of the smaller bodies
QueryTerms ==
    Terms \ {ProgClosureCtrl, ProgInnerLets, ProgYields, ProgRefChain, ProgMatchNested,
             ProgLetInLet}
InitQuery == Init /\ prog \in {Flatten(t, 1) : t \in QueryTerms}

SpecQuery == InitQuery /\ [][NextQuery]_vars

(***************************************************************************)
(* The ScopeTree on its own: a tree made by calls of its recording methods *)
(* with scopes of TreeScopes, and then queried.  A caller records lexical  *)
(* nesting: it never makes a scope its own ancestor.  A query changes      *)
(* nothing of the tree, so a run is followed up to its first query: every  *)
(* tree and every query of it is reached that way.                         *)
(***************************************************************************)
Open == fatal = "" /\ q = NoQuery

MaxEdges == 3
TreeIds == {1, 2}
TreeScopes == {Node(1), Node(2), Node(3), Destruction(1), Destruction(2)}

InitTree ==
    /\ prog = NoProgram
    /\ def_id = NoneId
    /\ NoFfi
    /\ stack = <<>>
    /\ cx = [root_id |-> NoneId, var_parent |-> None, parent |-> None]
    /\ expr_count = 0
    /\ terminating_scopes = {}
    /\ EmptyTree
    /\ fatal = ""
    /\ q = NoQuery

RecordScopeParent ==
    /\ Open
    /\ Cardinality(DOMAIN parent_map) < MaxEdges
    /\ \E child \in TreeScopes, parent \in TreeScopes \cup {None} :
          /\ parent # None => (parent # child /\ ~is_subscope_of(parent, child))
          /\ LET t == record_scope_parent(Tree, child, parent)
             IN  /\ parent_map' = t.pm
                 /\ destruction_scopes' = t.ds
                 /\ fatal' = Failed(t.ok, "assert")
    /\ q' = NoQuery
    /\ UNCHANGED <<ffi_vars, visitor_vars, var_map, rvalue_scopes, closure_tree, yield_in_scope,
                   body_expr_count>>

RecordClosureParent ==
    /\ Open
    /\ \E sub_closure \in TreeIds, sup_closure \in TreeIds :
          /\ ~closure_is_enclosed_by(sup_closure, sub_closure) \/ sub_closure = sup_closure
          /\ LET c == record_closure_parent([m |-> closure_tree, ok |-> TRUE],
                                            sub_closure, sup_closure)
             IN  /\ closure_tree' = c.m
                 /\ fatal' = Failed(c.ok, "assert")
    /\ q' = NoQuery
    /\ UNCHANGED <<ffi_vars, visitor_vars, parent_map, var_map, destruction_scopes, rvalue_scopes,
                   yield_in_scope, body_expr_count>>

QueryIsSubscopeOf ==
    /\ Open
    /\ \E a \in TreeScopes, b \in TreeScopes :
          QueryBool("is_subscope_of", a, b, is_subscope_of(a, b))

QueryScopesIntersect ==
    /\ Open
    /\ \E a \in TreeScopes, b \in TreeScopes :
          QueryBool("scopes_intersect", a, b, scopes_intersect(a, b))

QueryNearestCommonAncestor ==
    /\ Open
    /\ \E a \in TreeScopes, b \in TreeScopes :
          Query("nearest_common_ancestor", a, b, nearest_common_ancestor(a, b))

NextTree ==
    \/ RecordScopeParent \/ RecordClosureParent
    \/ QueryIsSubscopeOf \/ QueryScopesIntersect \/ QueryNearestCommonAncestor

SpecTree == InitTree /\ [][NextTree]_vars

(***************************************************************************)
(* The recording methods called one by one, each call and what its insert  *)
(* returned kept in q.  The calls follow the visit of the lone pattern of  *)
(* a declaration that has no body, by a visitor as region_scope_tree       *)
(* constructs it: nothing is entered, cx.var_parent is None.               *)
(***************************************************************************)
RecScopes == {Node(1), Node(2), Destruction(1)}
RecVars == {1, 2}

InitRecord ==
    /\ prog = Flatten(Bind, 1)
    /\ def_id = NoneId
    /\ NoFfi
    /\ stack = <<Visit("pat", 1)>>
    /\ cx = [root_id |-> NoneId, var_parent |-> None, parent |-> None]
    /\ expr_count = 0
    /\ terminating_scopes = {}
    /\ EmptyTree
    /\ fatal = ""
    /\ q = NoQuery

Returned == stack = <<>> /\ fatal = ""

CallRecordScopeParent ==
    /\ Returned
    /\ \E child \in RecScopes, parent \in RecScopes \cup {None} :
          /\ parent # child
          /\ LET t == record_scope_parent(Tree, child, parent)
             IN  /\ parent_map' = t.pm
                 /\ destruction_scopes' = t.ds
                 /\ fatal' = Failed(t.ok, "assert")
                 /\ q' = [op |-> "record_scope_parent", a |-> child, b |-> parent,
                          ret |-> IF parent = None THEN None ELSE opt_encl_scope(child)]
    /\ UNCHANGED <<ffi_vars, visitor_vars, var_map, rvalue_scopes, closure_tree,
                   yield_in_scope, body_expr_count>>

CallRecordVarScope ==
    /\ Returned
    /\ \E var \in RecVars, lifetime \in RecScopes :
          LET v == record_var_scope([m |-> var_map, ok |-> TRUE], var, lifetime)
          IN  /\ var_map' = v.m
              /\ fatal' = Failed(v.ok, "assert")
              /\ q' = [op |-> "record_var_scope", a |-> Node(var), b |-> lifetime,
                       ret |-> IF var \in DOMAIN var_map THEN var_map[var] ELSE None]
    /\ UNCHANGED <<ffi_vars, visitor_vars, parent_map, destruction_scopes, rvalue_scopes,
                   closure_tree, yield_in_scope, body_expr_count>>

CallVarScope ==
    /\ Returned
    /\ \E var \in RecVars : Query("var_scope", Node(var), None, var_scope(var))

CallOptDestructionScope ==
    /\ Returned
    /\ \E n \in RecVars :
          Query("opt_destruction_scope", Node(n), None, opt_destruction_scope(n))

NextRecord ==
    \/ ResolvePat
    \/ CallRecordScopeParent \/ CallRecordVarScope
    \/ CallVarScope \/ CallOptDestructionScope

SpecRecord == InitRecord /\ [][NextRecord]_vars

(***************************************************************************)
(* rustc_mir_transform::ffi_unwind_calls.  An Abi is its variant and, for  *)
(* the variants that have one, the unwind flag.  A basic block is          *)
(* is_cleanup and a terminator; a Call terminator holds what the loop asks *)
(* of its callee: the kind of its type, whether the FnDef is a foreign     *)
(* item, the abi of its signature and the answer of layout::fn_can_unwind. *)
(* The span of a terminator is the index of its block.                     *)
(***************************************************************************)
Abi(name, unwind) == [name |-> name, unwind |-> unwind]

\* (a variant that lets every abi of the C family unwind)
abi_can_unwind_any_c(abi) ==
    CASE abi.name \in {"C", "System", "Cdecl", "Stdcall", "Fastcall", "Vectorcall",
                       "Thiscall", "Aapcs", "Win64", "SysV64"} -> TRUE
      [] abi.name \in {"PtxKernel", "Msp430Interrupt", "X86Interrupt", "AmdGpuKernel",
                       "EfiApi", "AvrInterrupt", "AvrNonBlockingInterrupt",
                       "CCmseNonSecureCall", "Wasm", "RustIntrinsic",
                       "PlatformIntrinsic", "Unadjusted"} -> FALSE
      [] abi.name \in {"Rust", "RustCall", "RustCold"} -> TRUE

\* abi_can_unwind
abi_can_unwind(abi) ==
    CASE abi.name \in {"C", "System", "Cdecl", "Stdcall", "Fastcall", "Vectorcall",
                       "Thiscall", "Aapcs", "Win64", "SysV64"} -> abi.unwind
      [] abi.name \in {"PtxKernel", "Msp430Interrupt", "X86Interrupt", "AmdGpuKernel",
                       "EfiApi", "AvrInterrupt", "AvrNonBlockingInterrupt",
                       "CCmseNonSecureCall", "Wasm", "RustIntrinsic",
                       "PlatformIntrinsic", "Unadjusted"} -> FALSE
      [] abi.name \in {"Rust", "RustCall", "RustCold"} -> TRUE

Abis == {Abi("Rust", FALSE), Abi("C", TRUE), Abi("C", FALSE), Abi("PtxKernel", FALSE)}
\* ty.kind() of the callee: a function pointer, the FnDef of a foreign item, the
\* FnDef of an item of Rust, anything else
TyKinds == {"FnPtr", "FnDefForeign", "FnDefLocal", "Other"}
Callees == [ty : TyKinds, abi : Abis, fn_can_unwind : BOOLEAN]
NoCallee == [ty |-> "", abi |-> Abi("", FALSE), fn_can_unwind |-> FALSE]
Terminators ==
    {[kind |-> k, func |-> NoCallee] : k \in {"None", "Goto"}}
        \cup {[kind |-> "Call", func |-> c] : c \in Callees}
BasicBlocks == [is_cleanup : BOOLEAN, terminator : Terminators]

MaxBlocks == 2

MsgForeign == "call to foreign function with FFI-unwind ABI"
MsgPointer == "call to function pointer with FFI-unwind ABI"

\* (a variant that looks at the cleanup blocks too)
loop_body_cleanup_included(blk, span) ==
    IF blk.terminator.kind = "None" THEN "continue"
    ELSE IF blk.terminator.kind # "Call" THEN "continue"
    ELSE LET func == blk.terminator.func
         IN  IF func.abi.name \in {"Rust", "RustCall", "RustCold"} THEN "continue"
             ELSE IF func.ty = "FnDefLocal" THEN "continue"
             ELSE IF func.ty \notin {"FnPtr", "FnDefForeign"} THEN "bug"
             ELSE IF func.fn_can_unwind /\ abi_can_unwind(func.abi)
                  THEN IF func.ty = "FnDefForeign" THEN MsgForeign ELSE MsgPointer
                  ELSE "continue"

\* one turn of the loop over body.basic_blocks(), on block blk with span span:
\* "continue", "bug", or the message of the diagnostic emitted
loop_body(blk, span) ==
    IF blk.is_cleanup THEN "continue"
    ELSE IF blk.terminator.kind = "None" THEN "continue"
    ELSE IF blk.terminator.kind # "Call" THEN "continue"
    ELSE LET func == blk.terminator.func
         IN  IF func.abi.name \in {"Rust", "RustCall", "RustCold"} THEN "continue"
             ELSE IF func.ty = "FnDefLocal" THEN "continue"
             ELSE IF func.ty \notin {"FnPtr", "FnDefForeign"} THEN "bug"
             ELSE IF func.fn_can_unwind /\ abi_can_unwind(func.abi)
                  THEN IF func.ty = "FnDefForeign" THEN MsgForeign ELSE MsgPointer
                  ELSE "continue"

InitFfi ==
    /\ prog = NoProgram
    /\ def_id = NoneId
    /\ stack = <<>>
    /\ cx = [root_id |-> NoneId, var_parent |-> None, parent |-> None]
    /\ expr_count = 0
    /\ terminating_scopes = {}
    /\ EmptyTree
    /\ fatal = ""
    /\ q = NoQuery
    /\ mir \in [is_function : BOOLEAN, body_can_unwind : BOOLEAN, basic_blocks : {<<>>}]
    /\ lints = <<>>
    /\ tainted = FALSE

\* has_ffi_unwind_calls, the early returns: not a function, or a body that cannot
\* unwind
HasFfiUnwindCallsNotApplicable ==
    /\ Open
    /\ ~mir.is_function \/ ~mir.body_can_unwind
    /\ q' = [op |-> "has_ffi_unwind_calls", a |-> None, b |-> None, ret |-> FALSE]
    /\ UNCHANGED <<ffi_vars, visitor_vars, tree_vars, fatal>>

\* has_ffi_unwind_calls, one turn of the loop, on the next basic block of the body
HasFfiUnwindCallsBlock ==
    /\ Open
    /\ mir.is_function /\ mir.body_can_unwind
    /\ Len(mir.basic_blocks) < MaxBlocks
    /\ \E blk \in BasicBlocks :
          LET span == Len(mir.basic_blocks) + 1
              out == loop_body(blk, span)
          IN  /\ mir' = [mir EXCEPT !.basic_blocks = Append(@, blk)]
              /\ fatal' = IF out = "bug" THEN "bug" ELSE fatal
              /\ lints' = IF out \in {"continue", "bug"} THEN lints
                          ELSE Append(lints, [span |-> span, msg |-> out])
              /\ tainted' = IF out \in {"continue", "bug"} THEN tainted ELSE TRUE
    /\ UNCHANGED <<visitor_vars, tree_vars, q>>

\* has_ffi_unwind_calls, after the loop: tainted is returned
HasFfiUnwindCallsReturn ==
    /\ Open
    /\ mir.is_function /\ mir.body_can_unwind
    /\ q' = [op |-> "has_ffi_unwind_calls", a |-> None, b |-> None, ret |-> tainted]
    /\ UNCHANGED <<ffi_vars, visitor_vars, tree_vars, fatal>>

NextFfi ==
    \/ HasFfiUnwindCallsNotApplicable
    \/ HasFfiUnwindCallsBlock
    \/ HasFfiUnwindCallsReturn

SpecFfi == InitFfi /\ [][NextFfi]_vars

(***************************************************************************)
(* Notions the properties are stated with, defined from the HIR and from   *)
(* the maps of the tree, independently of the walks of the queries.        *)
(***************************************************************************)
\* the scopes reached from s by 0..n parent links
RECURSIVE UpSet(_, _)
UpSet(S, n) ==
    IF n = 0 THEN S
    ELSE UpSet(S \cup {parent_map[x] : x \in S \cap DOMAIN parent_map}, n - 1)
Reach(s) == UpSet({s}, Cardinality(DOMAIN parent_map))
\* the scope the chain of s ends at
RootOf(s) == CHOOSE r \in Reach(s) : r \notin DOMAIN parent_map
SameRoot(a, b) == RootOf(a) = RootOf(b)
\* the bodies reached from x by 0..n closure_tree links
RECURSIVE UpClosures(_, _)
UpClosures(S, n) ==
    IF n = 0 THEN S
    ELSE UpClosures(S \cup {closure_tree[x] : x \in S \cap DOMAIN closure_tree}, n - 1)
Encloses(sup, sub) == sup \in UpClosures({sub}, Cardinality(DOMAIN closure_tree))
AllScopes == DOMAIN parent_map \cup Range(parent_map) \cup {q.a, q.b}

\* the position (from 0) of statement s in its block
StmtIndex(s) == (CHOOSE i \in 1..Len(Kids(HirParent(s))) : Kid(HirParent(s), i) = s) - 1
IsDecl(s) == Kind(s) \in {"let", "item"}
Lets == {l \in Ids : Kind(l) = "let"}
Blocks == {b \in Ids : Kind(b) = "block"}
DeclIndices(blk) == {i \in 0..(Len(BlockStmts(blk)) - 1) : IsDecl(BlockStmts(blk)[i + 1])}
\* the bindings of a pattern, and whether one of them is by reference
Bindings(pat) == {b \in Ids : Kind(b) = "bind" /\ Within(b, pat)}
HasRefBinding(pat) == \E b \in Bindings(pat) : prog[b].f = "ref"
Overridden(e) == e \in DOMAIN rvalue_scopes
HasDestruction(n) == n \in DOMAIN destruction_scopes

(***************************************************************************)
(* Properties of the queries, over the trees of SpecTree.                  *)
(***************************************************************************)
IsNCA == q.op = "nearest_common_ancestor"

\* C1: when the chains of a and b end at the same root, nearest_common_ancestor(a, b)
\* is a scope c that a and b are both subscopes of, and no proper descendant of c
\* is an ancestor-or-equal of both; also when a is an ancestor of b, and when a = b.
C1_NearestCommonAncestor ==
    (IsNCA /\ SameRoot(q.a, q.b)) =>
        /\ q.ret # Bug
        /\ is_subscope_of(q.a, q.ret)
        /\ is_subscope_of(q.b, q.ret)
        /\ \A s \in AllScopes :
              (s # q.ret /\ is_subscope_of(s, q.ret))
                  => ~(is_subscope_of(q.a, s) /\ is_subscope_of(q.b, s))
        /\ (is_subscope_of(q.a, q.b) => q.ret = q.b)
        /\ (is_subscope_of(q.b, q.a) => q.ret = q.a)

\* two scopes on different branches, a two links below the answer
C1_Witness ==
    /\ IsNCA /\ SameRoot(q.a, q.b)
    /\ q.ret \notin {q.a, q.b}
    /\ q.a \in DOMAIN parent_map /\ parent_map[q.a] # q.ret

\* C2: when the chains of a and b end at different roots, the roots being the
\* Destruction scopes of two bodies, nearest_common_ancestor(a, b) is b if a's body
\* is enclosed (through closure_tree) by b's, a if b's body is enclosed by a's, and
\* a fatal error if neither body encloses the other.
C2_DifferentRootsByClosureNesting ==
    (/\ IsNCA /\ ~SameRoot(q.a, q.b)
     /\ RootOf(q.a).tag = "Destruction" /\ RootOf(q.b).tag = "Destruction") =>
        LET a_root_id == RootOf(q.a).id
            b_root_id == RootOf(q.b).id
        IN  q.ret = IF Encloses(b_root_id, a_root_id) THEN q.b
                    ELSE IF Encloses(a_root_id, b_root_id) THEN q.a
                    ELSE Bug

IsSub == q.op = "is_subscope_of"

\* C10: is_subscope_of(a, b) is true exactly when b is a or is reached from a by
\* parent links; so is_subscope_of(s, s) holds for every s, with or without an
\* entry in parent_map.
C10_IsSubscopeOf ==
    IsSub => /\ q.ret <=> (q.b \in Reach(q.a))
             /\ q.a = q.b => q.ret

\* b is reached from a by two links or more
C10_Witness ==
    /\ IsSub /\ q.ret /\ q.a # q.b
    /\ parent_map[q.a] # q.b

(***************************************************************************)
(* Properties of the trees the visitor builds, over Spec.                  *)
(***************************************************************************)
\* C3: in a built tree every binding v recorded in var_map has a var_scope that
\* Node(v) is a subscope of: bindings of lets, of match arms and of parameters.
C3_VarScopeEnclosesBinding ==
    Built => \A v \in DOMAIN var_map : is_subscope_of(Node(v), var_scope(v))

\* a parameter binding: one in an argument pattern of a body
IsParam(v) ==
    \E b \in Ids : Kind(b) = "body" /\ \E i \in 1..(Len(Kids(b)) - 1) : Within(v, Kid(b, i))

\* C3, amended: in a built tree every binding v of a let or of a match arm has a
\* var_scope that Node(v) is a subscope of; a parameter binding v of a body has
\* var_scope(v) = Arguments(body) while Node(v) has no parent, so that Node(v) is
\* not a subscope of var_scope(v).
C3_VarScopeEnclosesLocalBinding ==
    Built => \A v \in {n \in Ids : Kind(n) = "bind"} :
        /\ v \in DOMAIN var_map
        /\ ~IsParam(v) => is_subscope_of(Node(v), var_scope(v))
        /\ IsParam(v) =>
              /\ var_scope(v) = Arguments(BodyValue(BodyOfNode(v)))
              /\ Node(v) \notin DOMAIN parent_map
              /\ ~is_subscope_of(Node(v), var_scope(v))

\* a built tree with a parameter binding and a let binding
C3_Witness ==
    /\ Built
    /\ \E v \in DOMAIN var_map : IsParam(v) /\ var_map[v].tag = "Arguments"
    /\ \E v \in DOMAIN var_map :
         /\ ~IsParam(v) /\ Kind(HirParent(v)) = "let"
         /\ var_map[v].tag = "Remainder" /\ is_subscope_of(Node(v), var_map[v])

\* C4: in a block with declaration statements at indices i < j, the bindings of
\* statement i have var_scope Remainder(block, i); the first Remainder's parent is
\* the block's Node scope and each later one's parent is the Remainder before it,
\* so Remainder(block, j) is a strict subscope of Remainder(block, i); the pattern
\* and statement scopes of statement j and the tail expression are subscopes of
\* Remainder(block, i); the Node scope of statement i is no subscope of
\* Remainder(block, j).
C4_RemainderScopes ==
    Built => \A blk \in Blocks :
        /\ \A i \in DeclIndices(blk) :
            LET s == BlockStmts(blk)[i + 1]
                before == {k \in DeclIndices(blk) : k < i}
            IN  /\ Kind(s) = "let" =>
                      \A v \in Bindings(Kid(s, 1)) : var_scope(v) = Remainder(blk, i)
                /\ opt_encl_scope(Remainder(blk, i)) =
                      IF before = {} THEN Node(blk)
                      ELSE Remainder(blk, CHOOSE k \in before : \A m \in before : m <= k)
        /\ \A i \in DeclIndices(blk), j \in DeclIndices(blk) : i < j =>
            LET si == BlockStmts(blk)[i + 1]
                sj == BlockStmts(blk)[j + 1]
            IN  /\ Remainder(blk, j) # Remainder(blk, i)
                /\ is_subscope_of(Remainder(blk, j), Remainder(blk, i))
                /\ is_subscope_of(Node(sj), Remainder(blk, i))
                /\ Kind(sj) = "let" => is_subscope_of(Node(Kid(sj, 1)), Remainder(blk, i))
                /\ BlockHasTail(blk) => is_subscope_of(Node(LastKid(blk)), Remainder(blk, i))
                /\ ~is_subscope_of(Node(si), Remainder(blk, j))

\* a built block with two lets, each with a binding, and a tail expression
C4_Witness ==
    /\ Built
    /\ \E blk \in Blocks : \E i \in DeclIndices(blk), j \in DeclIndices(blk) :
        /\ i < j /\ BlockHasTail(blk)
        /\ Kind(BlockStmts(blk)[i + 1]) = "let" /\ Kind(BlockStmts(blk)[j + 1]) = "let"
        /\ \E v \in Bindings(Kid(BlockStmts(blk)[i + 1], 1)) : var_map[v] = Remainder(blk, i)
        /\ \E v \in Bindings(Kid(BlockStmts(blk)[j + 1], 1)) : var_map[v] = Remainder(blk, j)

IsTemp == q.op = "temporary_scope"
\* the scopes on the chain of s whose parent is a Destruction scope
BelowDestruction(s) ==
    {x \in Reach(s) \cap DOMAIN parent_map : parent_map[x].tag = "Destruction"}

\* C5: temporary_scope(expr) is the recorded rvalue scope of expr when there is one
\* (none included); otherwise the scope on the chain of Node(expr) whose parent is
\* the first Destruction scope met, which is the Node scope of a node that has a
\* Destruction scope (Node(expr) when expr has one), and none when the chain meets
\* no Destruction scope.
C5_TemporaryScope ==
    IsTemp =>
        LET e == q.a.id
            below == BelowDestruction(q.a)
        IN  IF e \in DOMAIN rvalue_scopes THEN q.ret = rvalue_scopes[e]
            ELSE IF below = {} THEN q.ret = None
            ELSE /\ q.ret \in below
                 /\ \A x \in below : x \in Reach(q.ret)
                 /\ q.ret.tag = "Node"
                 /\ parent_map[q.ret] = Destruction(q.ret.id)
                 /\ opt_destruction_scope(q.ret.id) = Destruction(q.ret.id)
                 /\ HasDestruction(e) => q.ret = Node(e)

\* an expression with no override whose temporary scope is two links or more up
C5_Witness ==
    /\ IsTemp /\ ~Overridden(q.a.id)
    /\ q.ret \notin {None, q.a, parent_map[q.a]}

\* the let statement e is the initializer of, NoneId if it is none
LetOfInit(e) ==
    IF Kind(HirParent(e)) = "let" /\ LastKid(HirParent(e)) = e THEN HirParent(e) ELSE NoneId

\* C6: for a let whose pattern has a by-reference binding, temporary_scope of the
\* initializer is not the let's Node scope but the Remainder scope of the let in
\* its block, the var_scope of the bindings of that let.
C6_RefBindingExtendsInitializer ==
    (IsTemp /\ LetOfInit(q.a.id) # NoneId /\ HasRefBinding(Kid(LetOfInit(q.a.id), 1))) =>
        LET l == LetOfInit(q.a.id)
        IN  /\ q.ret = Remainder(HirParent(l), StmtIndex(l))
            /\ q.ret # Node(l)
            /\ \A v \in Bindings(Kid(l, 1)) : var_scope(v) = q.ret

\* such a let whose by-reference binding is inside a tuple pattern
C6_Witness ==
    /\ IsTemp /\ LetOfInit(q.a.id) # NoneId
    /\ Kind(Kid(LetOfInit(q.a.id), 1)) = "tuppat"
    /\ HasRefBinding(Kid(LetOfInit(q.a.id), 1))
    /\ q.ret.tag = "Remainder"

\* no node from e up to (not including) top has a Destruction scope
NotTerminatingBelow(e, top) == \A m \in Between(e, top) : ~HasDestruction(m)
\* the nearest node strictly above n that has a Destruction scope
TerminatingAbove(n) ==
    LET ts == {m \in HirUp(n) \ {n} : HasDestruction(m)}
    IN  IF ts = {} THEN NoneId ELSE CHOOSE m \in ts : \A k \in ts : Within(m, k)

\* C7: for a block that has no Destruction scope, temporary_scope of the tail
\* expression, and of a sub-expression of it with no override and nothing
\* terminating in between, is the Node scope of the nearest terminating construct
\* around the block, a strict ancestor of the block's Node scope; temporary_scope of
\* an expression in a statement of the block, with no override and nothing
\* terminating in between, is the statement's Node scope.
C7_TailTemporariesOutliveBlock ==
    (IsTemp /\ ~Overridden(q.a.id)) =>
        LET e == q.a.id
        IN  \A blk \in Blocks :
            /\ (/\ ~HasDestruction(blk) /\ BlockHasTail(blk)
                /\ Within(e, LastKid(blk)) /\ NotTerminatingBelow(e, blk)) =>
                    /\ q.ret = Node(TerminatingAbove(blk))
                    /\ q.ret # Node(blk)
                    /\ is_subscope_of(Node(blk), q.ret)
            /\ \A i \in 1..Len(BlockStmts(blk)) :
                LET s == BlockStmts(blk)[i]
                IN  (Within(e, s) /\ NotTerminatingBelow(e, s)) => q.ret = Node(s)

\* the tail of a block inside a statement, and an expression inside a statement
C7_Witness ==
    /\ IsTemp /\ ~Overridden(q.a.id)
    /\ \E blk \in Blocks :
        /\ ~HasDestruction(blk) /\ BlockHasTail(blk) /\ q.a.id = LastKid(blk)
        /\ Kind(TerminatingAbove(blk)) = "semi"
        /\ q.ret = Node(TerminatingAbove(blk))
        /\ \E e \in Ids : /\ e \notin DOMAIN rvalue_scopes /\ IsExpr(e)
                          /\ Within(e, Kid(blk, 1))
                          /\ temporary_scope(e) = Node(Kid(blk, 1))

ShortCircuits == {n \in Ids : Kind(n) \in {"and", "or"}}

\* C8: for l && r and l || r, Destruction(r) is the parent of Node(r), and
\* temporary_scope of a sub-expression of r with no override is a subscope of
\* Node(r), never an ancestor of the operator's expression; l has no Destruction
\* scope.
C8_ShortCircuitRhsTerminating ==
    Built => \A n \in ShortCircuits :
        LET l == Kid(n, 1)
            r == Kid(n, 2)
        IN  /\ opt_destruction_scope(r) = Destruction(r)
            /\ opt_encl_scope(Node(r)) = Destruction(r)
            /\ ~HasDestruction(l)
            /\ (IsTemp /\ ~Overridden(q.a.id) /\ Within(q.a.id, r)) =>
                  /\ q.ret # None
                  /\ is_subscope_of(q.ret, Node(r))
                  /\ ~is_subscope_of(Node(n), q.ret)

\* an argument of a call that is the right operand
C8_Witness ==
    /\ IsTemp
    /\ \E n \in ShortCircuits :
        /\ q.a.id # Kid(n, 2) /\ Within(q.a.id, Kid(n, 2))
        /\ q.ret = Node(Kid(n, 2))

Yields == {y \in Ids : Kind(y) = "yield"}
\* the body a scope is counted to: the CallSite scope of a closure body is counted
\* to the body around the closure expression
BodyOfScope(s) ==
    IF s.tag = "CallSite" THEN BodyOfNode(HirParent(BodyOfNode(s.id)))
    ELSE BodyOfNode(s.id)

\* C9: after the build, every scope with a yield_in_scope entry has a yield of its
\* own body within it: a yield inside a closure body marks no scope of a body
\* around it, not the closure expression's Node scope and not the closure's
\* CallSite scope.
C9_YieldStaysInBody ==
    Built => \A s \in DOMAIN yield_in_scope :
        \E y \in Yields : BodyOfNode(y) = BodyOfScope(s) /\ is_subscope_of(Node(y), s)

\* a closure with a yield in it, none in the body around it
C9_Witness ==
    /\ Built
    /\ \E c \in Ids :
        /\ Kind(c) = "closure"
        /\ Arguments(BodyValue(Kid(c, 1))) \in DOMAIN yield_in_scope
        /\ CallSite(BodyValue(Kid(c, 1))) \notin DOMAIN yield_in_scope
        /\ Node(c) \notin DOMAIN yield_in_scope
        /\ \A y \in Yields : BodyOfNode(y) # BodyOfNode(c)

\* C11: a call of record_scope_parent(child, parent) for a child that has a parent
\* edge is fatal; a call that is not fatal leaves every edge there was as it was,
\* stores child -> parent when a parent is given and no edge when none is, and when
\* child is Destruction(n) makes opt_destruction_scope(n) return it.
C11_RecordScopeParentWriteOnce ==
    [][q'.op = "record_scope_parent" =>
        LET child == q'.a
            parent == q'.b
        IN  /\ (parent # None /\ child \in DOMAIN parent_map) => fatal' = "assert"
            /\ fatal' = "" =>
                 \A s \in DOMAIN parent_map :
                    s \in DOMAIN parent_map' /\ parent_map'[s] = parent_map[s]
            /\ (parent # None /\ child \notin DOMAIN parent_map) =>
                 fatal' = "" /\ parent_map' = Insert(parent_map, child, parent)
            /\ parent = None => fatal' = "" /\ parent_map' = parent_map
            /\ (fatal' = "" /\ child.tag = "Destruction") =>
                 /\ child.id \in DOMAIN destruction_scopes'
                 /\ destruction_scopes'[child.id] = child]_vars

\* a second parent recorded for a child, after a Destruction scope was recorded
\* with no parent
C11_Witness ==
    /\ q.op = "record_scope_parent" /\ fatal = "assert" /\ q.ret # None
    /\ \E n \in DOMAIN destruction_scopes :
          opt_destruction_scope(n) = Destruction(n) /\ Destruction(n) \notin DOMAIN parent_map

\* C12: a call of record_var_scope(var, scope) for a var that has a scope recorded
\* is fatal and leaves the first scope in var_map; a call with scope's node id equal
\* to var is fatal.
C12_RecordVarScopeWriteOnce ==
    q.op = "record_var_scope" =>
        /\ q.ret # None => (fatal = "assert" /\ var_map[q.a.id] = q.ret)
        /\ q.a.id = item_local_id(q.b) => fatal = "assert"

\* C13: var_scope(v) returns the scope var_map holds for v and is fatal when var_map
\* holds none; the visit of a binding pattern with cx.var_parent = None records
\* nothing and is not fatal, and var_scope of that binding is then fatal.
C13_VarScopeFatalWhenAbsent ==
    /\ q.op = "var_scope" =>
          IF q.a.id \in DOMAIN var_map
          THEN q.ret = var_map[q.a.id] /\ q.ret # None /\ fatal = ""
          ELSE q.ret = Bug /\ fatal = "bug"
    /\ (stack = <<>> /\ q = NoQuery) => (fatal = "" /\ var_map = EmptyMap)
    /\ (stack = <<>> /\ q = [NoQuery EXCEPT !.op = "var_scope", !.a = Node(1), !.ret = q.ret]
        /\ var_map = EmptyMap) => fatal = "bug"

\* var_scope of the binding that was visited with no cx.var_parent
C13_Witness ==
    /\ q.op = "var_scope" /\ q.a = Node(1) /\ stack = <<>>
    /\ Kind(1) = "bind" /\ 1 \notin DOMAIN var_map
    /\ q.ret = Bug /\ fatal = "bug"

\* the body of the item itself: the one that is the body of no closure
OwnerBodies == {b \in Ids : Kind(b) = "body" /\ HirParent(b) = NoneId}

\* C14: whatever body of the owner region_scope_tree is asked about, a closure's
\* included, the walk is the walk of the body of the enclosing non-closure item: it
\* starts there with root_id, parent and var_parent absent and an empty tree; a
\* closure body is visited only inside that walk, under its closure expression; the
\* tree built holds the scopes of every body of the owner.
C14_ClosureUsesBaseTree ==
    /\ stack # <<>> => stack[Len(stack)].n \in OwnerBodies
    /\ Running("body") =>
          IF cx.root_id = NoneId
          THEN /\ Top.n \in OwnerBodies
               /\ Len(stack) = 1
               /\ cx.parent = None /\ cx.var_parent = None
               /\ parent_map = EmptyMap
          ELSE /\ Kind(HirParent(Top.n)) = "closure"
               /\ Len(stack) > 1
               /\ cx.parent = Node(HirParent(Top.n))
    /\ Built => \A b \in {n \in Ids : Kind(n) = "body"} :
          /\ opt_encl_scope(Arguments(BodyValue(b))) = CallSite(BodyValue(b))
          /\ b \notin OwnerBodies =>
                opt_encl_scope(CallSite(BodyValue(b))) = Node(HirParent(b))

\* the tree asked for a closure, built from the body of the item around it
C14_Witness ==
    /\ Built
    /\ def_id \notin OwnerBodies
    /\ Kind(HirParent(def_id)) = "closure"
    /\ opt_encl_scope(CallSite(BodyValue(def_id))) = Node(HirParent(def_id))
    /\ \E b \in OwnerBodies : Arguments(BodyValue(b)) \in DOMAIN parent_map

\* the item is a const or static: its body is not that of a function
ConstItem == prog[RootBody].f = "const"
\* a is at a position of root where a borrow extends the temporary: root itself, an
\* element of a tuple, the operand of a cast or of an address-of, the tail of a
\* block, each at such a position
AtExtendingPosition(a, root) ==
    /\ Within(a, root)
    /\ \A m \in Between(a, root) :
          LET p == HirParent(m)
          IN  \/ Kind(p) \in {"addrof", "tup", "cast", "blockexpr"}
              \/ Kind(p) = "block" /\ BlockHasTail(p) /\ LastKid(p) = m

\* C15: in the body of a const or static, temporary_scope of the operand of an
\* address-of at an extending position of the body's root expression is none, from
\* an rvalue scope of none recorded for it; the operand of an address-of that is
\* not at such a position has no rvalue scope recorded and its temporary_scope is
\* the Node scope below the first Destruction scope above it.
C15_ConstBorrowEscapes ==
    (IsTemp /\ ConstItem /\ HirParent(q.a.id) # NoneId
     /\ Kind(HirParent(q.a.id)) = "addrof") =>
        IF AtExtendingPosition(HirParent(q.a.id), BodyValue(RootBody))
        THEN /\ Overridden(q.a.id) /\ rvalue_scopes[q.a.id] = None
             /\ q.ret = None
        ELSE /\ ~Overridden(q.a.id)
             /\ q.ret # None /\ q.ret.tag = "Node"
             /\ q.ret \in Reach(q.a)
             /\ opt_encl_scope(q.ret) = Destruction(q.ret.id)

\* a static with a borrow at an extending position and one in a call argument
C15_Witness ==
    /\ IsTemp /\ ConstItem /\ q.ret = None
    /\ Kind(HirParent(q.a.id)) = "addrof"
    /\ Kind(HirParent(HirParent(q.a.id))) = "tup"
    /\ \E e \in Ids \ {RootBody} :
          /\ Kind(HirParent(e)) = "addrof"
          /\ ~AtExtendingPosition(HirParent(e), BodyValue(RootBody))
          /\ temporary_scope(e) # None

\* e is in the initializer, in no closure, with no rvalue scope recorded and with
\* no node that has a Destruction scope from it up to the root expression
PlainInInitializer(e) ==
    /\ BodyOfNode(e) = RootBody
    /\ ~Overridden(e)
    /\ NotTerminatingBelow(e, BodyValue(RootBody))

QualifyingCall(i) ==
    LET blk == mir.basic_blocks[i]
        func == blk.terminator.func
    IN  /\ ~blk.is_cleanup
        /\ blk.terminator.kind = "Call"
        /\ func.ty \in {"FnPtr", "FnDefForeign"}
        /\ func.abi.name \notin {"Rust", "RustCall", "RustCold"}
        /\ func.abi.name = "C" /\ func.abi.unwind
        /\ func.fn_can_unwind
QualifyingCalls == {i \in 1..Len(mir.basic_blocks) : QualifyingCall(i)}

\* C17: the diagnostics emitted are one for each qualifying call gone through, in
\* the order of the blocks and with the call's span, saying "foreign function" for
\* a foreign function and "function pointer" for a call through a pointer; no other
\* call, and no body that is not a function's or cannot unwind, gets one.
C17_OneLintPerFfiUnwindCall ==
    /\ Len(lints) = Cardinality(QualifyingCalls)
    /\ \A i \in QualifyingCalls :
          \E k \in 1..Len(lints) :
             /\ lints[k].span = i
             /\ lints[k].msg = IF mir.basic_blocks[i].terminator.func.ty = "FnDefForeign"
                               THEN MsgForeign ELSE MsgPointer
    /\ \A k \in 1..Len(lints) : lints[k].span \in QualifyingCalls
    /\ \A k \in 1..Len(lints), l \in 1..Len(lints) :
          k < l => lints[k].span < lints[l].span
    /\ lints # <<>> => (mir.is_function /\ mir.body_can_unwind)
    /\ q.op = "has_ffi_unwind_calls" => (q.ret <=> lints # <<>>)

\* a body with a call of a foreign function and a call through a pointer, both
\* reported, has_ffi_unwind_calls returned
C17_Witness ==
    /\ q.op = "has_ffi_unwind_calls" /\ q.ret = TRUE
    /\ Len(lints) = 2
    /\ lints[1].msg # lints[2].msg

\* the expressions of the body of y that resolve_expr is called on before it is
\* called on y (the ids of a program are in the order of the walk)
ExprsBefore(y) == {e \in Ids : IsExpr(e) /\ BodyOfNode(e) = BodyOfNode(y) /\ e < y}

\* C18: the count recorded with a yield for a scope is the number of expressions of
\* the yield's body visited strictly before the yield expression, which is not
\* counted itself.
C18_YieldCountExcludesYield ==
    \A s \in DOMAIN yield_in_scope :
       yield_in_scope[s][2] = Cardinality(ExprsBefore(yield_in_scope[s][1]))

\* the expressions of body b: those resolve_expr is called on between the entry
\* and the exit of visit_body(b), the expressions of nested bodies left out
ExprsOfBody(b) == {e \in Ids : IsExpr(e) /\ BodyOfNode(e) = b}
IsGenerator(b) == prog[b].f = "gen"

\* C19 (as stated): once the build has returned, every body visited has a
\* body_expr_count, the number of its own expressions.
C19_EveryBodyHasExprCount ==
    Built =>
       \A b \in Bodies :
          /\ BodyValue(b) \in DOMAIN body_expr_count
          /\ body_expr_count[BodyValue(b)] = Cardinality(ExprsOfBody(b))

\* C19 (amended): a count is recorded for generator bodies only; for every
\* generator body visited it is the number of the body's own expressions, those of
\* nested closure bodies left out, whatever was counted before and inside.
C19_GeneratorBodyExprCount ==
    /\ \A b \in Bodies :
          BodyValue(b) \in DOMAIN body_expr_count =>
             /\ IsGenerator(b)
             /\ body_expr_count[BodyValue(b)] = Cardinality(ExprsOfBody(b))
    /\ Built =>
          \A b \in Bodies : IsGenerator(b) => BodyValue(b) \in DOMAIN body_expr_count

\* a generator with a generator closure in it, both counted, and a function with
\* a generator closure where only the closure is
C19_Witness ==
    /\ Built
    /\ \E b \in Bodies, c \in Bodies :
          /\ b # c /\ Within(c, b)
          /\ IsGenerator(c) /\ BodyValue(c) \in DOMAIN body_expr_count
          /\ IsGenerator(b) /\ BodyValue(b) \in DOMAIN body_expr_count
          /\ \E e \in ExprsOfBody(b) : e > c

QueryOps ==
    {"temporary_scope", "var_scope", "is_subscope_of", "scopes_intersect",
     "nearest_common_ancestor", "opt_encl_scope", "opt_destruction_scope",
     "yield_in_scope", "body_expr_count"}

BlocksWithTail == {blk \in Ids : Kind(blk) = "block" /\ BlockHasTail(blk)}
LastDeclIndex(blk) == CHOOSE i \in DeclIndices(blk) : \A j \in DeclIndices(blk) : j <= i

\* C21 (as stated): the scope of a block's tail expression has the block's own Node
\* scope as its parent, whatever statements the block has.
C21_TailUnderBlockNode ==
    \A blk \in BlocksWithTail :
       Node(LastKid(blk)) \in DOMAIN parent_map =>
          parent_map[Node(LastKid(blk))] = Node(blk)

\* C21 (amended): the scope of a block's tail expression has as its parent the
\* Remainder scope of the block's last declaration statement, and the block's own
\* Node scope only when the block has no declaration statement.
C21_TailUnderLastRemainder ==
    \A blk \in BlocksWithTail :
       Node(LastKid(blk)) \in DOMAIN parent_map =>
          parent_map[Node(LastKid(blk))] =
             IF DeclIndices(blk) = {} THEN Node(blk)
             ELSE Remainder(blk, LastDeclIndex(blk))

\* the tail of a block with a declaration statement has been visited
C21_Witness ==
    \E blk \in BlocksWithTail :
       /\ DeclIndices(blk) # {}
       /\ Node(LastKid(blk)) \in DOMAIN parent_map

\* C22 (as stated): on entering a body its CallSite scope and its Arguments scope
\* are both recorded with the parent that was current before, or both with none.
C22_CallSiteAndArgumentsSiblings ==
    [][Running("body") =>
          LET value == BodyValue(Top.n)
          IN  /\ (IF CallSite(value) \in DOMAIN parent_map'
                  THEN parent_map'[CallSite(value)] ELSE None) = cx.parent
              /\ (IF Arguments(value) \in DOMAIN parent_map'
                  THEN parent_map'[Arguments(value)] ELSE None) = cx.parent]_vars

\* C22 (amended): on entering a body its CallSite scope is recorded with the parent
\* that was current before (with none for the top-level body), and its Arguments
\* scope is recorded with that CallSite scope as its parent.
C22_ArgumentsUnderCallSite ==
    [][Running("body") =>
          LET value == BodyValue(Top.n)
          IN  /\ (IF CallSite(value) \in DOMAIN parent_map'
                  THEN parent_map'[CallSite(value)] ELSE None) = cx.parent
              /\ Arguments(value) \in DOMAIN parent_map'
              /\ parent_map'[Arguments(value)] = CallSite(value)]_vars

\* the body of a closure has been entered from inside another body, and both
\* bodies have their two scopes
C22_Witness ==
    \E b \in Bodies \ {RootBody} :
       /\ CallSite(BodyValue(b)) \in DOMAIN parent_map
       /\ Arguments(BodyValue(b)) \in DOMAIN parent_map
       /\ Arguments(BodyValue(RootBody)) \in DOMAIN parent_map
       /\ CallSite(BodyValue(RootBody)) \notin DOMAIN parent_map

\* the bodies of closures, and the scopes with a parent made while body b is visited
ClosureBodies == Bodies \ {RootBody}
ScopesMadeIn(b) == {s \in DOMAIN parent_map : Within(s.id, b)}

MarkedBy(n) ==
    CASE IsStmt(n) -> {n}
      [] IsExpr(n) -> terminating(n)
      [] Kind(n) = "arm" -> {LastKid(n)} \cup (IF prog[n].f = "guard" THEN {Kid(n, 2)} ELSE {})
      [] Kind(n) = "body" -> {BodyValue(n)}
      [] OTHER -> {}
MarkedUpTo(b, upto) == UNION {MarkedBy(n) : n \in {m \in Ids : BodyOfNode(m) = b /\ m <= upto}}

\* C24: when visit_body has returned to the closure expression it was called for,
\* the Context is the one the closure expression's scope was entered with, the
\* counter is the number of expressions of the enclosing body visited so far and
\* the terminating scopes are those marked in the enclosing body so far; when the
\* top-level visit_body has returned the three are as they were at construction;
\* at any time the terminating scopes are ids of the body being visited.
C24_VisitBodyRestores ==
    /\ Built =>
          /\ cx = [root_id |-> NoneId, var_parent |-> None, parent |-> None]
          /\ expr_count = 0
          /\ terminating_scopes = {}
    /\ (Running("expr_exit") /\ Kind(Top.n) = "closure") =>
          LET closure == Top.n
              outer == BodyOfNode(closure)
          IN  /\ cx = [root_id |-> BodyValue(outer),
                       var_parent |-> Top.sv.cx.var_parent,
                       parent |-> Node(closure)]
              /\ expr_count = Cardinality({e \in ExprsOfBody(outer) : e <= closure})
              /\ terminating_scopes = MarkedUpTo(outer, closure)
    /\ (fatal = "" /\ cx.root_id # NoneId) =>
          \A id \in terminating_scopes : BodyValue(BodyOfNode(id)) = cx.root_id

\* visit_body has returned to a closure expression, with terminating scopes marked
\* before it in the enclosing body and others marked inside the closure body
C24_Witness ==
    /\ Running("expr_exit") /\ Kind(Top.n) = "closure"
    /\ Cardinality(terminating_scopes) >= 3
    /\ \E n \in Ids : BodyOfNode(n) = Kid(Top.n, 1) /\ MarkedBy(n) # {} /\ IsExpr(n)

\* The Context a construct is entered with, read off the HIR alone.
\* The parent: the Node scope of the construct around it; for a statement or the
\* tail of a block the Remainder scope of the last declaration statement up to it,
\* the block's Node scope when there is none; for what is in an arm the Node scope
\* of the match; for a parameter pattern none, for a body's value its Arguments.
DeclsUpTo(blk, i) == {j \in DeclIndices(blk) : j <= i}
BlockScopeAt(blk, i) ==
    IF DeclsUpTo(blk, i) = {} THEN Node(blk)
    ELSE Remainder(blk, CHOOSE j \in DeclsUpTo(blk, i) : \A k \in DeclsUpTo(blk, i) : k <= j)
RECURSIVE ParentAtEntry(_)
ParentAtEntry(n) ==
    LET p == HirParent(n)
    IN  CASE Kind(p) = "block" -> BlockScopeAt(p, StmtIndex(n))
          [] Kind(p) = "arm" -> CHOOSE x \in {ParentAtEntry(a) : a \in {p}} : TRUE
          [] Kind(p) = "body" -> IF n = BodyValue(p) THEN Arguments(BodyValue(p)) ELSE None
          [] IsPat(p) -> CHOOSE x \in {ParentAtEntry(a) : a \in {p}} : TRUE
          [] OTHER -> Node(p)
\* The var_parent: that of the construct around it, but the parent for what is
\* in a block or in a match; for a parameter pattern and for the value of a fn's
\* body the Arguments scope, for the value of a const's body none.
RECURSIVE VarParentAtEntry(_)
VarParentAtEntry(n) ==
    LET p == HirParent(n)
    IN  CASE Kind(p) = "block" -> BlockScopeAt(p, StmtIndex(n))
          [] Kind(p) = "match" -> Node(p)
          [] Kind(p) = "body" ->
                IF n = BodyValue(p) /\ prog[p].f = "const" THEN None
                ELSE Arguments(BodyValue(p))
          [] OTHER -> CHOOSE x \in {VarParentAtEntry(a) : a \in {p}} : TRUE
ContextAtEntry(n) ==
    [root_id |-> BodyValue(BodyOfNode(n)),
     var_parent |-> VarParentAtEntry(n),
     parent |-> ParentAtEntry(n)]

EntryOps == {"expr", "block", "stmt", "arm", "pat"}

\* C25: every expression, block, statement, arm and pattern is entered with the
\* Context its place in the HIR gives it, whatever was visited before it: the
\* changes made to parent and var_parent inside an expression, a block or a
\* statement have been undone when the next sibling is entered, and the
\* statements of a block are entered with the block's Node scope as parent, or
\* with the Remainder scope of the last declaration statement up to them.
C25_ContextAtEntryFromHir ==
    (fatal = "" /\ stack # <<>> /\ Top.op \in EntryOps) => cx = ContextAtEntry(Top.n)

\* a statement is entered after a statement of the same block that has a match
\* with blocks and lets in it
C25_Witness ==
    /\ Running("stmt") /\ StmtIndex(Top.n) > 0
    /\ \E m \in Ids, l \in Lets :
          /\ Kind(m) = "match" /\ m < Top.n /\ Within(l, m)
          /\ HirParent(Top.n) = HirParent(HirParent(m))

\* the bodies that have been entered: visit_body records the parent of the body's
\* Arguments scope first thing
Entered(b) == Arguments(BodyValue(b)) \in DOMAIN parent_map
BodyValues == {BodyValue(b) : b \in Bodies}

\* C26: closure_tree holds, for every body entered other than the top-level one,
\* one edge from the body's root id to the root id of the body immediately around
\* it, a different id, and no other edge; no assertion fails during a build; and
\* closure_is_enclosed_by(x, y) is true exactly when y is x or the root id of a
\* body around the body of x.
C26_ClosureTreeIsBodyNesting ==
    /\ fatal # "assert"
    /\ DOMAIN closure_tree = {BodyValue(b) : b \in {c \in ClosureBodies : Entered(c)}}
    /\ \A b \in ClosureBodies :
          Entered(b) =>
             /\ closure_tree[BodyValue(b)] = BodyValue(BodyOfNode(HirParent(b)))
             /\ closure_tree[BodyValue(b)] # BodyValue(b)
    /\ \A b \in Bodies, x \in Ids :
          Entered(b) =>
             /\ closure_is_enclosed_by(BodyValue(b), x) <=>
                   \E c \in Bodies : x = BodyValue(c) /\ Within(b, c)
             /\ x \notin BodyValues => (closure_is_enclosed_by(x, BodyValue(b)) <=> FALSE)

\* a closure inside a closure: two edges in a chain, the build has returned
C26_Witness ==
    /\ Built
    /\ \E x \in DOMAIN closure_tree :
          /\ closure_tree[x] \in DOMAIN closure_tree
          /\ closure_is_enclosed_by(x, closure_tree[closure_tree[x]])

\* the yields visited so far, and the scopes from the Node scope of yield y up its
\* chain that lie below the CallSite scope of the yield's body: those of the
\* chain that are scopes of that body, its CallSite scope left out
VisitedYields == {y \in Yields : Node(y) \in DOMAIN parent_map}
BelowOwnCallSite(y) ==
    {s \in Reach(Node(y)) : s.tag # "CallSite" /\ BodyOfNode(s.id) = BodyOfNode(y)}
YieldsMarking(s) == {y \in VisitedYields : s \in BelowOwnCallSite(y)}

\* C27: the scopes with a yield_in_scope entry are, for every yield visited, the
\* yield's Node scope and the scopes above it below the CallSite scope of its
\* body, the body's Destruction and Arguments scopes among them and no CallSite
\* scope; the entry of a scope holds the last visited of the yields that mark it.
C27_YieldMarksUpToCallSite ==
    /\ DOMAIN yield_in_scope = UNION {BelowOwnCallSite(y) : y \in VisitedYields}
    /\ \A y \in VisitedYields :
          LET value == BodyValue(BodyOfNode(y))
          IN  /\ {Node(y), Destruction(value), Arguments(value)} \subseteq DOMAIN yield_in_scope
              /\ CallSite(value) \notin DOMAIN yield_in_scope
    /\ \A s \in DOMAIN yield_in_scope :
          /\ s.tag # "CallSite"
          /\ yield_in_scope[s][1] \in YieldsMarking(s)
          /\ \A y \in YieldsMarking(s) : y <= yield_in_scope[s][1]

\* three yields of one body visited: the scopes all three mark hold the last one,
\* which is inside the second
C27_Witness ==
    \E s \in DOMAIN yield_in_scope :
       /\ Cardinality(YieldsMarking(s)) = 3
       /\ Within(yield_in_scope[s][1], HirParent(yield_in_scope[s][1]))
       /\ Kind(HirParent(yield_in_scope[s][1])) = "yield"

\* the projection chain of e: e, and while the expression is an address-of, a
\* dereference, a field access or an index, its first operand
RECURSIVE ProjectionChain(_)
ProjectionChain(e) ==
    {e} \cup (IF Kind(e) \in {"addrof", "deref", "field", "index"}
              THEN ProjectionChain(Kid(e, 1)) ELSE {})
LetsWithInit == {l \in Lets : HasInit(prog[l].f)}
\* resolve_local has recorded what it records for let l: the pattern has been
\* visited
LocalResolved(l) == Node(Kid(l, 1)) \in DOMAIN parent_map
\* the scope a let extends temporaries to: the Remainder scope it opens
ExtendedScope(l) == Remainder(HirParent(l), StmtIndex(l))

\* C28: for a let whose pattern has a by-reference binding, every node of the
\* initializer's projection chain, the initializer and the innermost base
\* included, has the let's Remainder scope as its rvalue scope and as its
\* temporary_scope; nothing inside the index operand of a node of the chain has an
\* rvalue scope.
C28_RuleAWholeChain ==
    \A l \in LetsWithInit :
       (LocalResolved(l) /\ HasRefBinding(Kid(l, 1))) =>
          /\ \A n \in ProjectionChain(Kid(l, 2)) :
                /\ n \in DOMAIN rvalue_scopes
                /\ rvalue_scopes[n] = ExtendedScope(l)
                /\ temporary_scope(n) = ExtendedScope(l)
          /\ \A n \in ProjectionChain(Kid(l, 2)) :
                Kind(n) = "index" =>
                   \A m \in Ids : Within(m, Kid(n, 2)) => m \notin DOMAIN rvalue_scopes

\* the build has returned for a body with such a let whose chain has an index, a
\* dereference and a field access, and an address-of as the index operand
C28_Witness ==
    /\ Built
    /\ \E l \in LetsWithInit :
          /\ HasRefBinding(Kid(l, 1))
          /\ {Kind(n) : n \in ProjectionChain(Kid(l, 2))} = {"index", "deref", "field", "lit"}
          /\ \E n \in ProjectionChain(Kid(l, 2)) :
                Kind(n) = "index" /\ Kind(Kid(n, 2)) = "addrof"

\* the nodes rule C and rule A record an rvalue scope for, for let l
BorrowsAtExtendingPosition(l) ==
    {a \in Ids : Kind(a) = "addrof" /\ AtExtendingPosition(a, Kid(l, 2))}
RuleCNodes(l) == UNION {ProjectionChain(Kid(a, 1)) : a \in BorrowsAtExtendingPosition(l)}
RuleANodes(l) == IF HasRefBinding(Kid(l, 1)) THEN ProjectionChain(Kid(l, 2)) ELSE {}
\* the nodes of the initializer of l, those of a let inside it left out
InitializerNodes(l) ==
    {n \in Ids : /\ Within(n, Kid(l, 2))
                 /\ \A k \in LetsWithInit \ {l} : ~(Within(n, k) /\ Within(k, l))}

\* C29: for every let with an initializer, whatever its pattern, the nodes of the
\* initializer with an rvalue scope are the projection chains of the operands of
\* the address-of expressions at extending positions (the initializer, a tuple
\* element, a cast operand, a block's tail, the operand of such an address-of, each
\* recursively), with the chain of the initializer added when the pattern has a
\* by-reference binding; all of them have the let's Remainder scope, and an
\* address-of at another position, as a call argument, gives its operand none.
C29_RuleCAnyPattern ==
    \A l \in LetsWithInit :
       LocalResolved(l) =>
          \A n \in InitializerNodes(l) :
             /\ n \in DOMAIN rvalue_scopes <=> n \in RuleCNodes(l) \cup RuleANodes(l)
             /\ n \in DOMAIN rvalue_scopes => rvalue_scopes[n] = ExtendedScope(l)

\* the build has returned for a body with a let without by-reference binding whose
\* initializer has a borrow inside a tuple inside a borrow at a block's tail under
\* a cast, and a borrow as a call argument; and a let where both rules record the
\* same node
C29_Witness ==
    /\ Built
    /\ \E l \in LetsWithInit :
          /\ ~HasRefBinding(Kid(l, 1))
          /\ \E a \in BorrowsAtExtendingPosition(l), b \in BorrowsAtExtendingPosition(l) :
                /\ a # b /\ Within(a, b)
                /\ \E c \in Ids : Kind(c) = "cast" /\ Within(b, c) /\ Within(c, l)
          /\ \E a \in InitializerNodes(l) :
                /\ Kind(a) = "addrof" /\ Kind(HirParent(a)) = "call"
                /\ Kid(a, 1) \notin DOMAIN rvalue_scopes
    /\ \E l \in LetsWithInit : RuleCNodes(l) \cap RuleANodes(l) # {}

\* lets whose declared type is a borrow
LetsOfBorrowType == {l \in LetsWithInit : prog[l].f = "init: &T"}

\* C30: once a let with a declared borrow type has been resolved, every expression
\* of its initializer's projection chain has the let's Remainder scope as rvalue
\* scope (rule B), as rule A gives for a by-reference binding
C30_RuleBExtendsByType ==
    \A l \in LetsOfBorrowType :
       LocalResolved(l) =>
          \A n \in ProjectionChain(Kid(l, 2)) :
             /\ n \in DOMAIN rvalue_scopes
             /\ rvalue_scopes[n] = ExtendedScope(l)

\* what the code does: the declared type changes nothing, the overrides are those
\* of rules A and C alone
C30_DeclaredTypeIgnored ==
    \A l \in LetsOfBorrowType :
       LocalResolved(l) =>
          \A n \in InitializerNodes(l) :
             n \in DOMAIN rvalue_scopes <=> n \in RuleCNodes(l) \cup RuleANodes(l)

\* the build has returned for a body with `let v: &T = h().f`, and the temporary
\* of h().f ends with the statement
C30_Witness ==
    /\ Built
    /\ \E l \in LetsOfBorrowType :
          /\ ~HasRefBinding(Kid(l, 1))
          /\ Kind(Kid(l, 2)) = "field"
          /\ Kid(l, 2) \notin DOMAIN rvalue_scopes
          /\ temporary_scope(Kid(l, 2)) = Node(l)

Stmts == {n \in Ids : IsStmt(n)}
VisitedStmts == {n \in Stmts : Node(n) \in DOMAIN parent_map}
\* the expressions and patterns a statement holds directly
StmtContents(n) == {Kid(n, i) : i \in 1..Len(Kids(n))}
ExprsWithin(n) == {e \in Ids : IsExpr(e) /\ Within(e, n) /\ e # n}

\* every visited statement has its Destruction scope under the parent that was
\* current at its entry and its Node scope under the Destruction scope, what it
\* holds is under its Node scope, and with the build done every expression inside
\* it without an rvalue scope has a temporary scope that is a subscope of Node(stmt)
StmtScopes ==
    \A n \in VisitedStmts :
       /\ Destruction(n) \in DOMAIN parent_map
       /\ parent_map[Destruction(n)] = ParentAtEntry(n)
       /\ parent_map[Node(n)] = Destruction(n)
       /\ opt_destruction_scope(n) = Destruction(n)
       /\ \A c \in StmtContents(n) :
             Node(c) \in DOMAIN parent_map => parent_map[Node(c)] = Node(n)
       /\ Built =>
             \A e \in ExprsWithin(n) :
                ~Overridden(e) =>
                   /\ temporary_scope(e) # None
                   /\ is_subscope_of(temporary_scope(e), Node(n))
\* the step that leaves a statement puts back the parent current at its entry and
\* leaves the rest of the context alone
StmtExitRestores ==
    Running("stmt_exit") =>
        cx' = [cx EXCEPT !.parent = parent_map[Destruction(Top.n)]]

\* C31: every statement is a terminating scope: visiting it records Destruction(stmt)
\* with the parent current at that point and Node(stmt) with parent Destruction(stmt),
\* visits what the statement holds under Node(stmt) and puts the parent back on
\* exit; a temporary inside a statement that has no rvalue scope has a temporary
\* scope that is a subscope of Node(stmt).
C31_StatementsTerminate == []StmtScopes /\ [][StmtExitRestores]_vars

\* the build has returned for a body with an expression statement holding, two
\* levels down, an expression whose temporary scope is the statement's Node scope,
\* and with a let whose initializer's temporary scope is the let's Node scope
C31_Witness ==
    /\ Built
    /\ \E n \in VisitedStmts :
          /\ Kind(n) = "semi"
          /\ \E e \in ExprsWithin(n) :
                /\ HirParent(e) # n /\ HirParent(HirParent(e)) # n
                /\ ~Overridden(e) /\ temporary_scope(e) = Node(n)
    /\ \E n \in VisitedStmts :
          Kind(n) = "let" /\ HasInit(prog[n].f) /\ ~Overridden(Kid(n, 2))
             /\ temporary_scope(Kid(n, 2)) = Node(n)

\* the condition and the branches of a conditional, the condition and the body of
\* a loop
ControlExprs == {n \in Ids : Kind(n) \in {"if", "loop", "while"}}
SubConstructs(n) == {Kid(n, i) : i \in 1..Len(Kids(n))}
Visited(n) == Node(n) \in DOMAIN parent_map

\* C32: the condition, the then-branch and the else-branch of a conditional, the
\* body of a loop, the condition and the body of a while loop each get a
\* Destruction scope, entered under the Node scope of the conditional or loop with
\* the Node scope of the sub-construct under it; with the build done, an expression
\* inside such a sub-construct (the sub-construct included) that has no rvalue
\* scope has a temporary scope that is a subscope of the sub-construct's Node scope,
\* so never a strict ancestor of it.
C32_BranchesAndLoopsTerminate ==
    \A n \in ControlExprs :
       \A c \in SubConstructs(n) :
          Visited(c) =>
             /\ opt_destruction_scope(c) = Destruction(c)
             /\ parent_map[Node(c)] = Destruction(c)
             /\ parent_map[Destruction(c)] = Node(n)
             /\ Built =>
                   \A e \in {x \in Ids : IsExpr(x) /\ Within(x, c)} :
                      ~Overridden(e) =>
                         /\ temporary_scope(e) # None
                         /\ is_subscope_of(temporary_scope(e), Node(c))
                         /\ ~(/\ temporary_scope(e) # Node(c)
                              /\ is_subscope_of(Node(c), temporary_scope(e)))

\* the build has returned for a body with a conditional with an else-branch, a
\* loop, and a while loop whose condition holds an expression with the condition's
\* Node scope as temporary scope
C32_Witness ==
    /\ Built
    /\ \E n \in ControlExprs : Kind(n) = "if" /\ Len(Kids(n)) = 3 /\ Visited(Kid(n, 3))
    /\ \E n \in ControlExprs : Kind(n) = "loop" /\ HasDestruction(Kid(n, 1))
    /\ \E n \in ControlExprs :
          /\ Kind(n) = "while"
          /\ \E e \in Ids : /\ IsExpr(e) /\ Within(e, Kid(n, 1)) /\ e # Kid(n, 1)
                            /\ ~Overridden(e)
                            /\ temporary_scope(e) = Node(Kid(n, 1))

Matches == {n \in Ids : Kind(n) = "match"}
Arms(n) == {Kid(n, i) : i \in 2..Len(Kids(n))}
ArmGuards(a) == IF prog[a].f = "guard" THEN {Kid(a, 2)} ELSE {}
\* for every visited part of a match: the bindings of an arm's pattern have the
\* match's Node scope as var_scope, an arm's body and guard have a Destruction
\* scope under the match's Node scope, the subject has none
MatchScopes ==
    \A n \in Matches :
       /\ Visited(Kid(n, 1)) =>
             /\ ~HasDestruction(Kid(n, 1))
             /\ Destruction(Kid(n, 1)) \notin DOMAIN parent_map
             /\ parent_map[Node(Kid(n, 1))] = Node(n)
       /\ \A a \in Arms(n) :
             /\ \A v \in Bindings(Kid(a, 1)) :
                   v \in DOMAIN var_map => var_map[v] = Node(n)
             /\ \A e \in {LastKid(a)} \cup ArmGuards(a) :
                   Visited(e) =>
                      /\ opt_destruction_scope(e) = Destruction(e)
                      /\ parent_map[Node(e)] = Destruction(e)
                      /\ parent_map[Destruction(e)] = Node(n)
\* while the arms of a match are walked the var_parent is the match's Node scope,
\* and the step that leaves the match puts back the Context of its entry
MatchVarParent ==
    /\ (Running("arm") /\ Kind(HirParent(Top.n)) = "match") =>
          cx.var_parent = Node(HirParent(Top.n)) /\ cx.parent = Node(HirParent(Top.n))
    /\ (Running("expr_exit") /\ Kind(Top.n) = "match") =>
          /\ cx'.var_parent = VarParentAtEntry(Top.n)
          /\ cx'.var_parent # Node(Top.n)
          /\ cx'.parent = ParentAtEntry(Top.n)

\* C33: on entering a match the var_parent becomes the parent current at that
\* point, the match's own Node scope, so every binding of an arm's pattern has
\* var_scope Node(match), and the var_parent of before is back after the match;
\* the body and the guard of each arm are terminating and get Destruction scopes;
\* the subject of the match gets none.
C33_MatchArms == []MatchScopes /\ [][MatchVarParent]_vars

\* the build has returned for a body with a match inside a guarded arm of a
\* match, the binding of the arm after it having the outer match's Node scope
C33_Witness ==
    /\ Built
    /\ \E n \in Matches, m \in Matches :
          /\ n # m /\ Within(m, n)
          /\ \E a \in Arms(n) :
                /\ Within(m, a) /\ ArmGuards(a) # {} /\ HasDestruction(Kid(a, 2))
                /\ HasDestruction(LastKid(a))
          /\ \E a \in Arms(n) : /\ a > m
                                /\ \E v \in Bindings(Kid(a, 1)) : var_map[v] = Node(n)

NoSelfScope ==
    /\ \A v \in DOMAIN var_map : item_local_id(var_map[v]) # v
    /\ \A e \in DOMAIN rvalue_scopes :
          rvalue_scopes[e] # None => item_local_id(rvalue_scopes[e]) # e
    /\ \A b \in DOMAIN closure_tree : closure_tree[b] # b
\* a step of the build leaves every entry of the maps as it is
WriteOnce ==
    /\ \A s \in DOMAIN parent_map : s \in DOMAIN parent_map' /\ parent_map'[s] = parent_map[s]
    /\ \A v \in DOMAIN var_map : v \in DOMAIN var_map' /\ var_map'[v] = var_map[v]
    /\ \A e \in DOMAIN rvalue_scopes :
          e \in DOMAIN rvalue_scopes' /\ rvalue_scopes'[e] = rvalue_scopes[e]
    /\ \A b \in DOMAIN closure_tree :
          b \in DOMAIN closure_tree' /\ closure_tree'[b] = closure_tree[b]
    /\ \A n \in DOMAIN destruction_scopes :
          n \in DOMAIN destruction_scopes' /\ destruction_scopes'[n] = destruction_scopes[n]

\* C35: over a body whose node ids are unique no build trips an assertion: no scope
\* is given a parent twice, no binding and no expression is recorded with a scope
\* of its own node, no body is recorded as its own parent, and an entry of
\* rvalue_scopes is never given another value.
C35_NoAssertionInBuild == [](fatal # "assert" /\ NoSelfScope) /\ [][WriteOnce]_vars

\* the build has returned without error for a body with a let inside the
\* initializer of a let, each with rvalue scopes recorded in its initializer, of
\* two different Remainder scopes
C35_Witness ==
    /\ Built /\ fatal = ""
    /\ \E l \in LetsWithInit, k \in LetsWithInit :
          /\ k # l /\ Within(k, Kid(l, 2))
          /\ \E e \in InitializerNodes(l), d \in InitializerNodes(k) :
                /\ Overridden(e) /\ Overridden(d)
                /\ rvalue_scopes[e] = ExtendedScope(l)
                /\ rvalue_scopes[d] = ExtendedScope(k)
                /\ ExtendedScope(l) # ExtendedScope(k)

ExitOps == {"expr_exit", "block_exit", "stmt_exit", "body_exit"}
\* the nodes whose scopes are open: their handlers have not returned
OpenIds ==
    {IF stack[i].op = "body_exit" THEN BodyValue(stack[i].n) ELSE stack[i].n :
        i \in {j \in 1..Len(stack) : stack[j].op \in ExitOps}}
\* no scope is reached from its parent, no body from the body around it; the walk
\* from a scope to its root passes each scope of the chain once, and the walk from
\* a body through closure_tree ends
Acyclic ==
    /\ \A s \in DOMAIN parent_map : s \notin UpSet({parent_map[s]}, Cardinality(DOMAIN parent_map))
    /\ \A s \in DOMAIN parent_map \cup Range(parent_map) :
          /\ Len(ancestors_of(s)) = Cardinality(Reach(s))
          /\ ~is_subscope_of(s, None)
    /\ \A b \in DOMAIN closure_tree :
          /\ ~Encloses(b, closure_tree[b])
          /\ ~closure_is_enclosed_by(b, NoneId)
\* a step records edges only for scopes that were in no edge before, each to the
\* parent current before the step or to a scope entered by the same step, and the
\* scope pointed to is open after the step
EdgesToOpenScopes ==
    LET entered == DOMAIN parent_map' \ DOMAIN parent_map
    IN  /\ \A s \in DOMAIN parent_map : s \in DOMAIN parent_map' /\ parent_map'[s] = parent_map[s]
        /\ \A s \in entered :
              /\ s \notin Range(parent_map)
              /\ \/ parent_map'[s] = cx.parent
                 \/ parent_map'[s] \in entered
                 \/ cx.parent = None /\ parent_map'[s] \notin DOMAIN parent_map \cup Range(parent_map)
              /\ parent_map'[s].id \in OpenIds'

\* C36: after any prefix of a build parent_map has no cycle: every edge is recorded
\* for a scope new to the tree and points to a scope entered before it and open at
\* that point, so every walk up the parents (is_subscope_of, ancestors_of, and with
\* them temporary_scope, nearest_common_ancestor and the marking loop of a yield)
\* ends; closure_tree has no cycle either, so closure_is_enclosed_by ends.
C36_ParentMapAcyclic == []Acyclic /\ [][EdgesToOpenScopes]_vars

\* in the middle of a build: a closure's body inside a closure's body is being
\* walked, with a chain of six scopes or more above the current parent
C36_Witness ==
    /\ ~Built /\ stack # <<>>
    /\ Cardinality(DOMAIN closure_tree) >= 2
    /\ cx.parent # None /\ Len(ancestors_of(cx.parent)) >= 6

\* the nodes some visit marks terminating
MarkedNodes == UNION {MarkedBy(n) : n \in Ids}
\* Destruction(n) is what destruction_scopes holds for n and what
\* opt_destruction_scope(n) returns, its one child is Node(n), and no other scope
\* has a Destruction scope as parent; with the build done the nodes with a
\* Destruction scope are the marked ones
DestructionScopes ==
    /\ \A n \in DOMAIN destruction_scopes :
          /\ destruction_scopes[n] = Destruction(n)
          /\ opt_destruction_scope(n) = Destruction(n)
          /\ {s \in DOMAIN parent_map : parent_map[s] = Destruction(n)} = {Node(n)}
    /\ \A n \in Ids \ DOMAIN destruction_scopes : opt_destruction_scope(n) = None
    /\ \A s \in DOMAIN parent_map :
          /\ parent_map[s].tag = "Destruction" =>
                s = Node(parent_map[s].id) /\ HasDestruction(parent_map[s].id)
          /\ s.tag = "Destruction" => HasDestruction(s.id)
    /\ Built => DOMAIN destruction_scopes = MarkedNodes
\* a step that enters the Node scope of n enters Destruction(n) exactly when n is in
\* the terminating set, and a Destruction scope is entered by no other step
DestructionWhenMarked ==
    /\ \A n \in Ids :
          (Node(n) \in DOMAIN parent_map' \ DOMAIN parent_map) =>
              (n \in DOMAIN destruction_scopes' <=> n \in terminating_scopes')
    /\ \A n \in DOMAIN destruction_scopes' \ DOMAIN destruction_scopes :
          /\ Node(n) \in DOMAIN parent_map' \ DOMAIN parent_map
          /\ n \in terminating_scopes'

\* C37: a Destruction(n) scope exists exactly for the nodes n that were in the
\* terminating set when they were entered; opt_destruction_scope(n), when there is
\* one, is Destruction(n); Destruction(n) has one child in parent_map, Node(n), and
\* the only scope whose parent is a Destruction scope is the Node scope of the same
\* node.
C37_DestructionScopes == []DestructionScopes /\ [][DestructionWhenMarked]_vars

\* the build has returned for a body with six or more Destruction scopes, one of
\* them of a block, and a node without one whose parent has one
C37_Witness ==
    /\ Built
    /\ Cardinality(DOMAIN destruction_scopes) >= 6
    /\ \E n \in DOMAIN destruction_scopes : Kind(n) = "block"
    /\ \E n \in Ids : /\ IsExpr(n) /\ ~HasDestruction(n) /\ Visited(n)
                      /\ HasDestruction(HirParent(n))

\* C38: for scopes a and b whose chains end at the same root,
\* nearest_common_ancestor(a, b) = nearest_common_ancestor(b, a); it is b exactly
\* when is_subscope_of(a, b); scopes_intersect(a, b) = scopes_intersect(b, a), and
\* it is true exactly when nearest_common_ancestor(a, b) is a or b.
C38_AncestorAndIntersect ==
    (IsNCA /\ SameRoot(q.a, q.b)) =>
        /\ q.ret = nearest_common_ancestor(q.a, q.b)
        /\ q.ret = nearest_common_ancestor(q.b, q.a)
        /\ q.ret = q.b <=> is_subscope_of(q.a, q.b)
        /\ q.ret = q.a <=> is_subscope_of(q.b, q.a)
        /\ scopes_intersect(q.a, q.b) = scopes_intersect(q.b, q.a)
        /\ scopes_intersect(q.a, q.b) <=> q.ret \in {q.a, q.b}

\* a query of a scope and a scope two links below it, answered with the first
C38_Witness ==
    /\ IsNCA /\ SameRoot(q.a, q.b) /\ q.a # q.b
    /\ q.ret = q.a
    /\ q.b \in DOMAIN parent_map /\ parent_map[q.b] # q.a
    /\ scopes_intersect(q.b, q.a)

HasReturned == q.op = "has_ffi_unwind_calls"
\* the blocks gone through that the loop passes over: cleanup blocks, blocks
\* without a call, calls with one of Rust's abis, direct calls of functions of Rust
PassedOver ==
    {i \in 1..Len(mir.basic_blocks) :
        LET blk == mir.basic_blocks[i]
        IN  \/ blk.is_cleanup
            \/ blk.terminator.kind # "Call"
            \/ blk.terminator.func.abi.name \in {"Rust", "RustCall", "RustCold"}
            \/ blk.terminator.func.ty = "FnDefLocal"}
Flagged == {lints[k].span : k \in 1..Len(lints)}

\* C39: has_ffi_unwind_calls returns true exactly when it has emitted a diagnostic
\* for the body; it returns false with nothing emitted when the owner is not a
\* function or closure, or the body cannot unwind; a call in a cleanup block, a
\* call with abi Rust, RustCall or RustCold and a direct call of a function that is
\* not a foreign item are never flagged.
C39_TaintedIffDiagnostic ==
    /\ tainted <=> lints # <<>>
    /\ Flagged \cap PassedOver = {}
    /\ HasReturned =>
          /\ q.ret = tainted
          /\ q.ret = TRUE <=> Flagged # {}
          /\ (~mir.is_function \/ ~mir.body_can_unwind) => (q.ret = FALSE /\ lints = <<>>)

\* has_ffi_unwind_calls has returned true for a body with a flagged call and, in a
\* cleanup block, a call of a foreign function that can unwind, not flagged
C39_Witness ==
    /\ HasReturned /\ q.ret = TRUE
    /\ Len(lints) = 1
    /\ \E i \in PassedOver :
          LET blk == mir.basic_blocks[i]
          IN  /\ blk.is_cleanup /\ blk.terminator.kind = "Call"
              /\ blk.terminator.func.ty = "FnDefForeign"
              /\ blk.terminator.func.abi = Abi("C", TRUE)
              /\ blk.terminator.func.fn_can_unwind

====
